---- MODULE Spec2Model ----
(***************************************************************************)
(* A model of the packet-radio mesh node (mesh_node.py) and of the KISS    *)
(* link manager beneath it (kiss_link.py).                                 *)
(*                                                                         *)
(* Frames are sequences of bytes (naturals below 256), built and parsed    *)
(* field by field as the code does.  A node is modelled by its routing     *)
(* tables, its dedup cache, its TX queue and the position of its cleanup   *)
(* thread; the link by its flags, its transport handle, its mutex, its TX  *)
(* queue and the position of every worker thread and of stop().            *)
(***************************************************************************)
EXTENDS Naturals, Integers, Sequences, FiniteSets, TLC

(***************************************************************************)
(* Program constants.                                                      *)
(***************************************************************************)
MESH_VERSION == 1
MESH_MSG_DATA == 0
MESH_MSG_OGM == 1
MESH_FLAG_COMPRESSED == 1
MESH_FLAG_ENCRYPTED == 2
\* link_metric of a self-originated OGM
OWN_LINK_METRIC == 255
\* length of the AX.25 UI header the node skips (2 addresses, control, pid)
AX25_HEADER_LEN == 16
\* length of the mesh header
MESH_HEADER_LEN == 16
\* length of a node ID
NODE_ID_LEN == 8
\* shortest OGM body (prev_hop_id and link_metric)
OGM_BODY_MIN == 9
\* shortest DATA body (dest_id and data_seqno)
DATA_BODY_MIN == 12
\* AEAD nonce length, and the shortest encrypted remainder
NONCE_LEN == 12
ENC_REMAINDER_MIN == 13
\* AEAD tag length
TAG_LEN == 16

(***************************************************************************)
(* Bounds of the model.                                                    *)
(***************************************************************************)
\* the clock runs from 0 to MaxTime
MaxTime == 1
\* sequence numbers carried by injected DATA frames: 1..MaxSeq
MaxSeq == 1
\* sequence numbers carried by injected OGMs: 1..MaxOgmSeq
MaxOgmSeq == 2
\* the largest TTL carried by injected frames
MaxTtl == 2
\* route_expiry_seconds, neighbor_expiry_seconds, data_seen_expiry_seconds
RouteExpiry == 0
NeighborExpiry == 0
DataSeenExpiry == 0
\* the line scenario: the TTL nodes give their frames (ogm_ttl), the OGMs the
\* three nodes emit in all, the send_application_data calls of A, and the
\* frames that may be queued or in the air when a node originates another
OgmTtl == 2
MaxOgm == 2
MaxSend == 1
MaxPending == 1
\* the link scenario: the start() calls that spawn workers, the frames send()
\* accepts, the I/O errors the transport raises, and the TX queue capacity
\* (tx_queue_size)
MaxStarts == 2
MaxFrames == 2
MaxFails == 1
TxQueueSize == 1

MaxBaseDelay == 3

MaxMaxDelay == 8

MaxRetries == 5

MaxAlloc == 3

MaxRows == 3

MaxTs == 2

MaxLimit == 2

(***************************************************************************)
(* Bytes.                                                                  *)
(***************************************************************************)
Byte == 0..255

\* the element of a one-element set: Only({e : v \in {x}}) is e with v the
\* value of x, computed once
Only(S) == CHOOSE r \in S : TRUE

Repeat(b, n) == [i \in 1..n |-> b]

Take(s, n) == IF n >= Len(s) THEN s ELSE SubSeq(s, 1, n)

Drop(s, n) == IF n >= Len(s) THEN << >> ELSE SubSeq(s, n + 1, Len(s))

\* bytes.ljust(n, fill)
Ljust(s, n, fill) == IF Len(s) >= n THEN s ELSE s \o Repeat(fill, n - Len(s))

(***************************************************************************)
(* Unsigned 32-bit values are pairs << high half, low half >> of 16-bit    *)
(* halves, so that the full range, the wrap included, is representable.    *)
(***************************************************************************)
U32(n) == << n \div 65536, n % 65536 >>

U32Greater(a, b) == a[1] > b[1] \/ (a[1] = b[1] /\ a[2] > b[2])

\* struct.pack(">I", v)
Pack32(v) == << v[1] \div 256, v[1] % 256, v[2] \div 256, v[2] % 256 >>

\* struct.unpack(">I", b)[0]
Unpack32(b) == << b[1] * 256 + b[2], b[3] * 256 + b[4] >>

\* callsign.encode("ascii", errors="ignore").ljust(8, b"\x00")[:8]
DeriveNodeId(callsign) == Take(Ljust(callsign, NODE_ID_LEN, 0), NODE_ID_LEN)

(***************************************************************************)
(* AX.25 UI frame builder.                                                 *)
(***************************************************************************)
\* the ASCII codes the builder looks at
ASCII_DASH == 45
ASCII_SPACE == 32
ASCII_ZERO == 48
ASCII_LOWER_A == 97
ASCII_LOWER_Z == 122
\* length of the base callsign in an AX.25 address
AX25_CALL_LEN == 6

\* the position of the first "-" of a callsign, 0 when there is none
DashIndex(callsign) ==
  IF \E i \in 1..Len(callsign) : callsign[i] = ASCII_DASH
  THEN CHOOSE i \in 1..Len(callsign) :
         /\ callsign[i] = ASCII_DASH
         /\ \A j \in 1..(i - 1) : callsign[j] # ASCII_DASH
  ELSE 0

IsDigits(s) == Len(s) > 0 /\ \A i \in 1..Len(s) : s[i] \in ASCII_ZERO..(ASCII_ZERO + 9)

RECURSIVE DigitsValue(_)
DigitsValue(s) ==
  IF s = << >> THEN 0
  ELSE DigitsValue(SubSeq(s, 1, Len(s) - 1)) * 10 + (s[Len(s)] - ASCII_ZERO)

\* int(ssid_str), 0 on ValueError
SsidValue(callsign) ==
  LET d == DashIndex(callsign)
      ssid_str == Drop(callsign, d)
  IN  IF d = 0 THEN 0
      ELSE IF IsDigits(ssid_str) THEN DigitsValue(ssid_str) ELSE 0

Upper(b) == IF b \in ASCII_LOWER_A..ASCII_LOWER_Z THEN b - 32 ELSE b

\* _encode_ax25_address: callsign[-ssid] in the 7-byte AX.25 form
EncodeAx25Address(callsign, last) ==
  LET d == DashIndex(callsign)
      base0 == IF d = 0 THEN callsign ELSE Take(callsign, d - 1)
      base == Take([i \in 1..Len(base0) |-> Upper(base0[i])], AX25_CALL_LEN)
      call_bytes == Ljust(base, AX25_CALL_LEN, ASCII_SPACE)
      ssid_field == 96 + (SsidValue(callsign) % 16) * 2 + (IF last THEN 1 ELSE 0)
  IN  Only({[i \in 1..AX25_CALL_LEN |-> c[i] * 2] : c \in {call_bytes}})
        \o << ssid_field >>

\* mesh_dest_callsign, "QMESH-0"
MeshDestCallsign == << 81, 77, 69, 83, 72, 45, 48 >>

\* _wrap_in_ax25_ui: dest + src + control + pid + info
WrapInAx25Ui(callsign, info_payload) ==
  EncodeAx25Address(MeshDestCallsign, FALSE)
    \o EncodeAx25Address(callsign, TRUE)
    \o << 3 >> \o << 240 >> \o info_payload

\* _find_info_start: None (here 0) for a frame of at most 16 bytes, else 16
FindInfoStart(frame) == IF Len(frame) <= AX25_HEADER_LEN THEN 0 ELSE AX25_HEADER_LEN

(***************************************************************************)
(* Mesh header.                                                            *)
(***************************************************************************)
\* _build_mesh_header
BuildMeshHeader(msg_type, flags, ttl, origin_id, seqno) ==
  << MESH_VERSION, msg_type, flags, ttl >> \o origin_id \o Pack32(seqno)

\* _parse_mesh_header, for an info field of at least 16 bytes
ParseMeshHeader(info) ==
  [version |-> info[1], msg_type |-> info[2], flags |-> info[3], ttl |-> info[4],
   origin_id |-> SubSeq(info, 5, 12), seqno |-> Unpack32(SubSeq(info, 13, 16))]

HasFlag(flags, bit) == (flags \div bit) % 2 = 1

(***************************************************************************)
(* zlib, as the node uses it: compress() and decompress() are inverse, and *)
(* decompress() fails on bytes compress() cannot produce.  The stand-in is *)
(* a two-byte stream header followed by (run length, byte) pairs.          *)
(***************************************************************************)
ZLIB_HEADER == << 120, 156 >>

RECURSIVE RunLength(_)
RunLength(p) ==
  IF p = << >> THEN << >>
  ELSE LET n == CHOOSE k \in 1..Len(p) :
                  /\ \A i \in 1..k : p[i] = p[1]
                  /\ (k = Len(p) \/ p[k + 1] # p[1])
       IN  << n, p[1] >> \o Only({RunLength(rest) : rest \in {Drop(p, n)}})

ZlibCompress(p) == ZLIB_HEADER \o Only({RunLength(v) : v \in {p}})

RECURSIVE RunExpand(_)
RunExpand(c) ==
  IF c = << >> THEN << >>
  ELSE Repeat(c[2], c[1]) \o Only({RunExpand(rest) : rest \in {Drop(c, 2)}})

\* whether zlib.decompress(c) returns (otherwise it raises zlib.error)
ZlibValid(c) ==
  /\ Len(c) >= 2
  /\ Take(c, 2) = ZLIB_HEADER
  /\ Len(c) % 2 = 0
  /\ \A i \in 1..((Len(c) - 2) \div 2) : c[2 * i + 1] >= 1

ZlibDecompress(c) == RunExpand(Drop(c, 2))

(***************************************************************************)
(* The AEAD of the crypto layer: decrypt(encrypt(p, aad), aad) = p, and    *)
(* decrypt fails when the tag does not match the ciphertext and the        *)
(* associated data.  The stand-in shifts every byte by the key and appends *)
(* a 16-byte tag that sums ciphertext and associated data.                 *)
(***************************************************************************)
AEAD_KEY == 5

RECURSIVE ByteSum(_)
ByteSum(s) ==
  IF s = << >> THEN 0
  ELSE IF Len(s) = 1 THEN s[1] % 256
  ELSE (Only({ByteSum(half) : half \in {SubSeq(s, 1, Len(s) \div 2)}})
          + Only({ByteSum(half) : half \in {SubSeq(s, Len(s) \div 2 + 1, Len(s))}})) % 256

AeadTag(nonce, ct, aad) ==
  Repeat((Only({ByteSum(v) : v \in {nonce \o ct \o aad}}) + AEAD_KEY) % 256, TAG_LEN)

\* encrypt(plaintext, aad) under the given nonce: ciphertext followed by tag
AeadEncrypt(nonce, p, aad) ==
  LET ct == [i \in 1..Len(p) |-> (p[i] + AEAD_KEY) % 256]
  IN  ct \o AeadTag(nonce, ct, aad)

\* whether decrypt(nonce, ciphertext, aad) returns (otherwise it fails)
AeadValid(nonce, ciphertext, aad) ==
  /\ Len(ciphertext) >= TAG_LEN
  /\ LET ct == Take(ciphertext, Len(ciphertext) - TAG_LEN)
     IN  Drop(ciphertext, Len(ciphertext) - TAG_LEN) = AeadTag(nonce, ct, aad)

AeadDecrypt(nonce, ciphertext, aad) ==
  LET ct == Take(ciphertext, Len(ciphertext) - TAG_LEN)
  IN  [i \in 1..Len(ct) |-> (ct[i] + 256 - AEAD_KEY) % 256]


(***************************************************************************)
(* Dictionaries: functions on the set of their keys.                       *)
(***************************************************************************)
\* mutant: the insertion is lost
DictPutLost(d, k, v) == d

DictPut(d, k, v) == [x \in (DOMAIN d) \cup {k} |-> IF x = k THEN v ELSE d[x]]

DictDel(d, keys) == [x \in (DOMAIN d) \ keys |-> d[x]]

EmptyDict == [x \in {} |-> 0]

(***************************************************************************)
(* OGM construction and handling.                                          *)
(***************************************************************************)
\* _next_seqno: the value after `seqno`
NextSeqno(seqno) ==
  IF seqno[2] < 65535 THEN << seqno[1], seqno[2] + 1 >>
  ELSE IF seqno[1] < 65535 THEN << seqno[1] + 1, 0 >>
  ELSE << 0, 0 >>

\* _build_ogm_payload, with the sequence number already allocated
BuildOgmPayload(callsign, seqno, ttl) ==
  BuildMeshHeader(MESH_MSG_OGM, 0, ttl, DeriveNodeId(callsign), seqno)
    \o DeriveNodeId(callsign) \o << OWN_LINK_METRIC >>

\* mutant: any other sequence number replaces the entry
OgmIsDifferent(seqno, entry) == seqno # entry.last_seqno

\* the test of _handle_ogm that lets an OGM replace a stored entry
OgmIsNewer(seqno, entry) == U32Greater(seqno, entry.last_seqno)

\* the neighbor table after _handle_ogm
OgmNeighbors(neighbors, now, prev_hop_id, link_metric) ==
  DictPut(neighbors, prev_hop_id, [last_seen |-> now, link_metric |-> link_metric])

\* mutant: an OGM that is not newer still refreshes last_seen
OgmOriginatorsTouching(originators, now, origin_id, seqno, prev_hop_id, link_metric) ==
  LET fresh == [best_next_hop |-> prev_hop_id, last_seqno |-> seqno,
                metric |-> link_metric, last_seen |-> now]
  IN  IF origin_id \notin DOMAIN originators
      THEN DictPut(originators, origin_id, fresh)
      ELSE IF OgmIsNewer(seqno, originators[origin_id])
           THEN DictPut(originators, origin_id, fresh)
           ELSE DictPut(originators, origin_id,
                        [originators[origin_id] EXCEPT !.last_seen = now])

\* the originator table after _handle_ogm
OgmOriginators(originators, now, origin_id, seqno, prev_hop_id, link_metric) ==
  LET fresh == [best_next_hop |-> prev_hop_id, last_seqno |-> seqno,
                metric |-> link_metric, last_seen |-> now]
  IN  IF origin_id \notin DOMAIN originators
      THEN DictPut(originators, origin_id, fresh)
      ELSE IF OgmIsNewer(seqno, originators[origin_id])
           THEN DictPut(originators, origin_id, fresh)
           ELSE originators

\* mutant: the last hop is forwarded too
TtlAllowsForwardAtOne(ttl) == ttl >= 1

\* the test that lets a received frame be forwarded
TtlAllowsForward(ttl) == ttl > 1

\* mutant: a forwarded frame keeps its TTL
ForwardTtlKept(ttl) == ttl

\* the TTL a forwarded frame leaves with
ForwardTtl(ttl) == ttl - 1

\* the frames _handle_ogm hands to the link
OgmForward(callsign, origin_id, seqno, ttl, link_metric) ==
  IF TtlAllowsForward(ttl)
  THEN << WrapInAx25Ui(callsign,
            BuildMeshHeader(MESH_MSG_OGM, 0, ForwardTtl(ttl), origin_id, seqno)
              \o DeriveNodeId(callsign) \o << link_metric >>) >>
  ELSE << >>

\* _handle_ogm: the tables after it, the frames it sends, the callbacks it makes
HandleOgm(callsign, st, now, origin_id, seqno, ttl, prev_hop_id, link_metric) ==
  [originators |-> OgmOriginators(st.originators, now, origin_id, seqno,
                                  prev_hop_id, link_metric),
   neighbors |-> OgmNeighbors(st.neighbors, now, prev_hop_id, link_metric),
   data_seen |-> st.data_seen,
   out |-> OgmForward(callsign, origin_id, seqno, ttl, link_metric),
   cb |-> << >>]

(***************************************************************************)
(* DATA construction and handling.                                         *)
(***************************************************************************)
\* _build_data_payload, with the sequence number already allocated; `nonce`
\* is the nonce the encryptor draws
BuildDataPayload(callsign, encryption_enabled, nonce, dest_id, data_seqno, ttl, app_payload) ==
  LET compressed == ZlibCompress(app_payload)
      smaller == Len(compressed) < Len(app_payload)
      payload_to_send == IF smaller THEN compressed ELSE app_payload
      associated_data == DeriveNodeId(callsign) \o dest_id \o Pack32(data_seqno)
      flags == (IF smaller THEN MESH_FLAG_COMPRESSED ELSE 0)
                 + (IF encryption_enabled THEN MESH_FLAG_ENCRYPTED ELSE 0)
      body == IF encryption_enabled
              THEN dest_id \o Pack32(data_seqno) \o nonce
                     \o AeadEncrypt(nonce, payload_to_send, associated_data)
              ELSE dest_id \o Pack32(data_seqno) \o payload_to_send
  IN  BuildMeshHeader(MESH_MSG_DATA, flags, ttl, DeriveNodeId(callsign), data_seqno)
        \o body

\* mutant: the gate never finds the key
DataSeenHitNever(data_seen, key) == FALSE

\* the dedup gate: whether the key of a received DATA frame is in the cache
DataSeenHit(data_seen, key) == key \in DOMAIN data_seen

\* mutant: the lookup answers for the destinations it has no entry for
HasNextHopInverted(originators, dest_id) == dest_id \notin DOMAIN originators

\* mutant: the lookup answers for every destination
HasNextHopAlways(originators, dest_id) == TRUE

\* _lookup_best_next_hop: whether the originator table holds a next hop
HasNextHop(originators, dest_id) == dest_id \in DOMAIN originators

\* mutant: the forwarder drops the nonce of the body
ForwardBodyWithoutNonce(body) ==
  Take(body, DATA_BODY_MIN) \o Drop(body, DATA_BODY_MIN + NONCE_LEN)

\* the body a forwarded DATA frame carries
ForwardBody(body) == body

\* the mesh payload of a forwarded DATA frame
DataForwardPayload(origin_id, seqno, ttl, flags, body) ==
  BuildMeshHeader(MESH_MSG_DATA, flags, ForwardTtl(ttl), origin_id, seqno)
    \o ForwardBody(body)

\* _handle_data_frame past the dedup gate: what the frame is dropped for, or
\* delivered, or forwarded
DataOutcome(callsign, encryption_enabled, originators, origin_id, ttl, flags, body) ==
  IF Len(body) < DATA_BODY_MIN THEN [kind |-> "short"]
  ELSE
    LET dest_id == SubSeq(body, 1, 8)
        data_seq == Unpack32(SubSeq(body, 9, 12))
        remainder == Drop(body, DATA_BODY_MIN)
        associated_data == origin_id \o dest_id \o Pack32(data_seq)
        encrypted == HasFlag(flags, MESH_FLAG_ENCRYPTED)
        nonce == Take(remainder, NONCE_LEN)
        ciphertext == Drop(remainder, NONCE_LEN)
        decrypt_ok == encryption_enabled /\ AeadValid(nonce, ciphertext, associated_data)
        decrypted == IF encrypted THEN AeadDecrypt(nonce, ciphertext, associated_data)
                     ELSE remainder
        compressed == HasFlag(flags, MESH_FLAG_COMPRESSED)
    IN  IF encrypted /\ Len(remainder) < ENC_REMAINDER_MIN THEN [kind |-> "short_enc"]
        ELSE IF encrypted /\ ~decrypt_ok THEN [kind |-> "decrypt_fail"]
        ELSE Only({
               IF compressed /\ ~ZlibValid(payload) THEN [kind |-> "decompress_fail"]
               ELSE Only({
                      IF dest_id = DeriveNodeId(callsign)
                      THEN [kind |-> "deliver",
                            cb |-> << origin_id, dest_id, data_seq, app_bytes >>]
                      ELSE IF ~TtlAllowsForward(ttl) THEN [kind |-> "ttl"]
                      ELSE IF ~HasNextHop(originators, dest_id) THEN [kind |-> "no_route"]
                      ELSE [kind |-> "forward"]
                    : app_bytes \in {IF compressed THEN ZlibDecompress(payload)
                                     ELSE payload}})
             : payload \in {decrypted}})

\* _handle_data_frame
HandleDataFrame(callsign, encryption_enabled, st, now, origin_id, seqno, ttl, flags, body) ==
  LET key == << origin_id, seqno >>
  IN  IF DataSeenHit(st.data_seen, key)
      THEN [originators |-> st.originators, neighbors |-> st.neighbors,
            data_seen |-> st.data_seen, out |-> << >>, cb |-> << >>]
      ELSE Only({
             [originators |-> st.originators, neighbors |-> st.neighbors,
              data_seen |-> DictPut(st.data_seen, key, now),
              out |-> IF o.kind = "forward"
                      THEN << WrapInAx25Ui(callsign,
                                DataForwardPayload(origin_id, seqno, ttl, flags, body)) >>
                      ELSE << >>,
              cb |-> IF o.kind = "deliver" THEN << o.cb >> ELSE << >>]
             : o \in {DataOutcome(callsign, encryption_enabled, st.originators,
                                  origin_id, ttl, flags, body)}})

(***************************************************************************)
(* The RX dispatcher.                                                      *)
(***************************************************************************)
\* a dispatcher that does not look at the version byte
FrameKindAnyVersion(frame) ==
  IF Len(frame) <= AX25_HEADER_LEN \/ FindInfoStart(frame) = 0 THEN "drop"
  ELSE LET info == Drop(frame, FindInfoStart(frame))
       IN  IF Len(info) < MESH_HEADER_LEN THEN "drop"
           ELSE LET h == ParseMeshHeader(info)
                    body == Drop(info, MESH_HEADER_LEN)
                IN  IF h.msg_type = MESH_MSG_OGM
                         THEN IF Len(body) < OGM_BODY_MIN THEN "drop" ELSE "ogm"
                    ELSE IF h.msg_type = MESH_MSG_DATA THEN "data"
                    ELSE "drop"

\* what _on_kiss_frame takes a frame for: "drop", "ogm" or "data"
FrameKind(frame) ==
  IF Len(frame) <= AX25_HEADER_LEN \/ FindInfoStart(frame) = 0 THEN "drop"
  ELSE LET info == Drop(frame, FindInfoStart(frame))
       IN  IF Len(info) < MESH_HEADER_LEN THEN "drop"
           ELSE LET h == ParseMeshHeader(info)
                    body == Drop(info, MESH_HEADER_LEN)
                IN  IF h.version # MESH_VERSION THEN "drop"
                    ELSE IF h.msg_type = MESH_MSG_OGM
                         THEN IF Len(body) < OGM_BODY_MIN THEN "drop" ELSE "ogm"
                    ELSE IF h.msg_type = MESH_MSG_DATA THEN "data"
                    ELSE "drop"

\* _on_kiss_frame
OnKissFrame(callsign, encryption_enabled, st, now, frame) ==
  LET info == Drop(frame, AX25_HEADER_LEN)
      kind == FrameKind(frame)
  IN  IF kind = "drop"
      THEN [originators |-> st.originators, neighbors |-> st.neighbors,
            data_seen |-> st.data_seen, out |-> << >>, cb |-> << >>]
      ELSE Only({
             IF kind = "ogm"
             THEN HandleOgm(callsign, st, now, h.origin_id, h.seqno, h.ttl,
                            SubSeq(body, 1, 8), body[9])
             ELSE HandleDataFrame(callsign, encryption_enabled, st, now, h.origin_id,
                                  h.seqno, h.ttl, h.flags, body)
             : h \in {ParseMeshHeader(info)}, body \in {Drop(info, MESH_HEADER_LEN)}})

\* mutant: an entry as old as the expiry is swept too
ExpiredAtExpiry(now, stamp, expiry) == now - stamp >= expiry

\* now - last_seen > expiry, the test of the cleanup sweep
Expired(now, stamp, expiry) == now - stamp > expiry


(***************************************************************************)
(* State.                                                                  *)
(***************************************************************************)
VARIABLES
  \* mesh nodes, each variable a function on Nodes
  originators,         \* _routing_state.originators
  neighbors,           \* _routing_state.neighbors
  data_seen,           \* _data_seen: (origin_id, seqno) -> insertion time
  seqno,               \* _seqno
  txq,                 \* the TX queue of the node's link
  inbox,               \* frames the node's TNC has heard and not yet handed over
  cleanup_pc,          \* where the cleanup thread of the node stands
  cleanup_now,         \* the `now` its current sweep read
  cleanup_dead,        \* the dead_* list its current sweep built
  encryption_enabled,  \* security configuration, shared by the mesh
  now,                 \* time.time()
  \* history
  rx,                  \* the last frame handled, what was sent and called back for it
  evicted,             \* per node: the dedup keys a sweep has evicted so far
  seq_high,            \* per node and originator: the highest last_seqno stored so far
  app_log,             \* per node: the application callbacks made so far
  sent,                \* the send_application_data calls made so far
  \* the KISS link manager
  running,             \* _running
  connected,           \* _connected
  kiss_iface,          \* _kiss_iface: 0 for None, 1 for a transport object
  lock,                \* _lock: << >> when free, else the worker holding it
  tx_queue,            \* _tx_queue
  rx_thread,           \* _rx_thread: 0 for None, else the generation of the worker
  tx_thread,           \* _tx_thread
  wpc,                 \* per worker: the statement it runs next
  wframe,              \* per TX worker: the frame it took off the queue
  apc,                 \* where the thread calling start() and stop() is
  starts,              \* start() calls that spawned workers
  accepted,            \* the frames send() accepted, in order
  written,             \* the frames written to the transport, in order
  io_fails,            \* I/O errors raised so far
  stops,               \* stop() calls that have returned
  \* a thread calling send()
  spc,                 \* where it is: "out", or "put" between the check and the put
  sblock,              \* the block argument of its call
  sres,                \* how its last call ended
  tx_queue_size,       \* configuration: the maxsize the TX queue was made with
  \* one run of _connect_with_backoff
  reconnect_base_delay,  \* configuration
  reconnect_max_delay,   \* configuration
  delay,               \* the local delay; 0 outside the routine
  slept,               \* the delays slept in this run, in order
  \* threads of node A inside _next_seqno
  seqno_lock,          \* _seqno_lock: "" when free, else the thread holding it
  alloc_pc,            \* per thread: where it is
  alloc_read,          \* per thread: the value of _seqno it read
  allocs,              \* the allocations made so far: who, from which value, what
  \* the chat store
  chat_rows,           \* the rows of chat_messages
  chat_result,         \* what the last get_recent_messages returned, and for what
  \* the threads of MeshNode A
  mesh_running,        \* MeshNode._running
  mesh_pc,             \* where the thread calling start() and stop() is
  mesh_starts,         \* start() calls that spawned loops
  loop_pc              \* per loop: the statement it runs next

nodeVars == << originators, neighbors, data_seen, seqno, txq, inbox, cleanup_pc,
               cleanup_now, cleanup_dead, encryption_enabled, now, rx, evicted,
               seq_high, app_log, sent >>

linkVars == << running, connected, kiss_iface, lock, tx_queue, rx_thread, tx_thread,
               wpc, wframe, apc, starts, accepted, written, io_fails, stops >>

sendVars == << spc, sblock, sres >>

backoffVars == << reconnect_base_delay, reconnect_max_delay, delay, slept >>

seqVars == << seqno_lock, alloc_pc, alloc_read, allocs >>

chatVars == << chat_rows, chat_result >>

meshVars == << mesh_running, mesh_pc, mesh_starts, loop_pc >>

auxVars == << sendVars, tx_queue_size, backoffVars, seqVars, chatVars, meshVars >>

exceptChat == << nodeVars, linkVars, sendVars, tx_queue_size, backoffVars, seqVars, meshVars >>

\* what a call of send() leaves alone, and what a connect run leaves alone
exceptSend == << tx_queue_size, backoffVars, seqVars, chatVars, meshVars >>

exceptBackoff == << nodeVars, linkVars, sendVars, tx_queue_size, seqVars, chatVars, meshVars >>

vars == << nodeVars, linkVars, auxVars >>

(***************************************************************************)
(* The mesh of the scenarios: three nodes in a line, A - B - C.            *)
(***************************************************************************)
Nodes == {"A", "B", "C"}

Callsign(n) == IF n = "A" THEN << 65 >> ELSE IF n = "B" THEN << 66 >> ELSE << 67 >>

NodeId(n) == DeriveNodeId(Callsign(n))

Linked(n, m) == << n, m >> \in {<< "A", "B" >>, << "B", "A" >>, << "B", "C" >>, << "C", "B" >>}

\* application payloads: "hi", which zlib cannot shorten, and a run of equal
\* bytes, which it can
PayloadHi == << 104, 105 >>
PayloadRun == Repeat(97, 5)

\* the nonce the encryptor draws
Nonce == Repeat(7, NONCE_LEN)

NodeState(n) ==
  [originators |-> originators[n], neighbors |-> neighbors[n], data_seen |-> data_seen[n]]

NoRx == [node |-> "", frame |-> << >>, out |-> << >>, cb |-> << >>]

InitNodesWith(counters) ==
  /\ originators = [n \in Nodes |-> EmptyDict]
  /\ neighbors = [n \in Nodes |-> EmptyDict]
  /\ data_seen = [n \in Nodes |-> EmptyDict]
  /\ seqno = counters
  /\ txq = [n \in Nodes |-> << >>]
  /\ inbox = [n \in Nodes |-> << >>]
  /\ cleanup_pc = [n \in Nodes |-> "sleep"]
  /\ cleanup_now = [n \in Nodes |-> 0]
  /\ cleanup_dead = [n \in Nodes |-> {}]
  /\ now = 0
  /\ rx = NoRx
  /\ evicted = [n \in Nodes |-> {}]
  /\ seq_high = [n \in Nodes |-> EmptyDict]
  /\ app_log = [n \in Nodes |-> << >>]
  /\ sent = << >>

\* MeshNode.__init__: self._seqno = 0
InitNodes == InitNodesWith([n \in Nodes |-> U32(0)])

(***************************************************************************)
(* One node, B, fed frames its neighbours can have built.  The frames it   *)
(* hands to its link, and the callbacks it makes, are recorded in rx.      *)
(***************************************************************************)
\* the highest last_seqno stored so far, once `table` is stored
HighSeqnos(high, table) ==
  [o \in (DOMAIN high) \cup (DOMAIN table) |->
     IF o \notin DOMAIN table THEN high[o]
     ELSE IF o \in DOMAIN high /\ U32Greater(high[o], table[o].last_seqno) THEN high[o]
     ELSE table[o].last_seqno]

\* RX of one frame at node n: _on_kiss_frame, the callbacks and the sends it makes
Receive(n, frame) ==
  LET r == OnKissFrame(Callsign(n), encryption_enabled, NodeState(n), now, frame)
  IN  /\ originators' = [originators EXCEPT ![n] = r.originators]
      /\ neighbors' = [neighbors EXCEPT ![n] = r.neighbors]
      /\ data_seen' = [data_seen EXCEPT ![n] = r.data_seen]
      /\ rx' = [node |-> n, frame |-> frame, out |-> r.out, cb |-> r.cb]
      /\ seq_high' = [seq_high EXCEPT ![n] = HighSeqnos(@, r.originators)]

NodeInject(frames) ==
  \E frame \in frames :
    /\ Receive("B", frame)
    /\ UNCHANGED << linkVars, auxVars, seqno, txq, inbox, cleanup_pc, cleanup_now, cleanup_dead,
                    encryption_enabled, now, evicted, app_log, sent >>

Tick ==
  /\ now < MaxTime
  /\ now' = now + 1
  /\ rx' = NoRx
  /\ UNCHANGED << linkVars, auxVars, originators, neighbors, data_seen, seqno, txq, inbox, cleanup_pc,
                  cleanup_now, cleanup_dead, encryption_enabled, evicted, seq_high, app_log, sent >>

(***************************************************************************)
(* The cleanup thread of node n, one step per scan and per eviction.       *)
(***************************************************************************)
DeadKeys(table, at, expiry) ==
  {k \in DOMAIN table : Expired(at, table[k].last_seen, expiry)}

DeadData(table, at, expiry) == {k \in DOMAIN table : Expired(at, table[k], expiry)}

\* wakes, reads the clock and scans the originator table
CleanupScanOriginators(n) ==
  /\ cleanup_pc[n] = "sleep"
  /\ cleanup_now' = [cleanup_now EXCEPT ![n] = now]
  /\ cleanup_dead' = [cleanup_dead EXCEPT ![n] = DeadKeys(originators[n], now, RouteExpiry)]
  /\ cleanup_pc' = [cleanup_pc EXCEPT ![n] = "del_orig"]
  /\ rx' = NoRx
  /\ UNCHANGED << linkVars, auxVars, originators, neighbors, data_seen, seqno, txq, inbox,
                  encryption_enabled, now, evicted, seq_high, app_log, sent >>

CleanupDelOriginators(n) ==
  /\ cleanup_pc[n] = "del_orig"
  /\ originators' = [originators EXCEPT ![n] = DictDel(@, cleanup_dead[n])]
  /\ cleanup_dead' = [cleanup_dead EXCEPT ![n] = {}]
  /\ cleanup_pc' = [cleanup_pc EXCEPT ![n] = "scan_nei"]
  /\ rx' = NoRx
  /\ UNCHANGED << linkVars, auxVars, neighbors, data_seen, seqno, txq, inbox, cleanup_now,
                  encryption_enabled, now, evicted, seq_high, app_log, sent >>

CleanupScanNeighbors(n) ==
  /\ cleanup_pc[n] = "scan_nei"
  /\ cleanup_dead' = [cleanup_dead EXCEPT
                        ![n] = DeadKeys(neighbors[n], cleanup_now[n], NeighborExpiry)]
  /\ cleanup_pc' = [cleanup_pc EXCEPT ![n] = "del_nei"]
  /\ rx' = NoRx
  /\ UNCHANGED << linkVars, auxVars, originators, neighbors, data_seen, seqno, txq, inbox, cleanup_now,
                  encryption_enabled, now, evicted, seq_high, app_log, sent >>

CleanupDelNeighbors(n) ==
  /\ cleanup_pc[n] = "del_nei"
  /\ neighbors' = [neighbors EXCEPT ![n] = DictDel(@, cleanup_dead[n])]
  /\ cleanup_dead' = [cleanup_dead EXCEPT ![n] = {}]
  /\ cleanup_pc' = [cleanup_pc EXCEPT ![n] = "scan_data"]
  /\ rx' = NoRx
  /\ UNCHANGED << linkVars, auxVars, originators, data_seen, seqno, txq, inbox, cleanup_now,
                  encryption_enabled, now, evicted, seq_high, app_log, sent >>

\* the scan of the dedup cache without the dedup lock
CleanupScanData(n) ==
  /\ cleanup_pc[n] = "scan_data"
  /\ cleanup_dead' = [cleanup_dead EXCEPT
                        ![n] = DeadData(data_seen[n], cleanup_now[n], DataSeenExpiry)]
  /\ cleanup_pc' = [cleanup_pc EXCEPT ![n] = "del_data"]
  /\ rx' = NoRx
  /\ UNCHANGED << linkVars, auxVars, originators, neighbors, data_seen, seqno, txq, inbox, cleanup_now,
                  encryption_enabled, now, evicted, seq_high, app_log, sent >>

\* the evictions from the dedup cache under the dedup lock
CleanupDelData(n) ==
  /\ cleanup_pc[n] = "del_data"
  /\ data_seen' = [data_seen EXCEPT ![n] = DictDel(@, cleanup_dead[n])]
  /\ evicted' = [evicted EXCEPT ![n] = @ \cup cleanup_dead[n]]
  /\ cleanup_dead' = [cleanup_dead EXCEPT ![n] = {}]
  /\ cleanup_pc' = [cleanup_pc EXCEPT ![n] = "sleep"]
  /\ cleanup_now' = [cleanup_now EXCEPT ![n] = 0]
  /\ rx' = NoRx
  /\ UNCHANGED << linkVars, auxVars, originators, neighbors, seqno, txq, inbox, encryption_enabled, now,
                  seq_high, app_log, sent >>

Cleanup(n) ==
  \/ CleanupScanOriginators(n)
  \/ CleanupDelOriginators(n)
  \/ CleanupScanNeighbors(n)
  \/ CleanupDelNeighbors(n)
  \/ CleanupScanData(n)
  \/ CleanupDelData(n)

(***************************************************************************)
(* Node B hearing DATA frames, and the OGM of C that gives it a route.     *)
(***************************************************************************)
\* the TTLs injected frames carry: none left, the last hop, and hops to spare
Ttls == {0, 1, MaxTtl}

\* what A sends: "hi" in the clear to B, and an encrypted, compressed run to C
DataKinds ==
  { [dest |-> "B", payload |-> PayloadHi, enc |-> FALSE],
    [dest |-> "C", payload |-> PayloadRun, enc |-> TRUE] }

\* the DATA frames B can hear: built by A, at any remaining TTL
DataFrames ==
  { WrapInAx25Ui(Callsign("A"),
      BuildDataPayload(Callsign("A"), k.enc, Nonce, NodeId(k.dest), U32(q), t,
                       k.payload)) :
    k \in DataKinds, q \in 1..MaxSeq, t \in Ttls }

\* the OGM of C as B hears it from C, at any remaining TTL
RouteOgmFrames ==
  { WrapInAx25Ui(Callsign("C"),
      BuildMeshHeader(MESH_MSG_OGM, 0, t, NodeId("C"), U32(1))
        \o NodeId("C") \o << OWN_LINK_METRIC >>) : t \in Ttls }

DataSpecFrames == DataFrames \cup RouteOgmFrames

DataInject == NodeInject(DataSpecFrames)

(***************************************************************************)
(* The KISS link manager: one KISSClient, the thread that calls start()    *)
(* and stop() on it, the threads that call send(), and the RX and TX       *)
(* workers every start() spawns.  A worker is <<kind, generation>>; its    *)
(* position is the statement it runs next.  The transport is the           *)
(* environment: connect, read and write may fail with an I/O error, and a  *)
(* read returns when the transport decides.                                *)
(***************************************************************************)
Workers == {"rx", "tx"} \X (1..MaxStarts)

Kind(w) == w[1]

\* b"", the sentinel stop() enqueues to wake the TX worker
SENTINEL == 0

\* KISSClient.__init__
InitLink ==
  /\ running = FALSE
  /\ connected = FALSE
  /\ kiss_iface = 0
  /\ lock = << >>
  /\ tx_queue = << >>
  /\ rx_thread = 0
  /\ tx_thread = 0
  /\ wpc = [w \in Workers |-> "none"]
  /\ wframe = [w \in Workers |-> SENTINEL]
  /\ apc = "out"
  /\ starts = 0
  /\ accepted = << >>
  /\ written = << >>
  /\ io_fails = 0
  /\ stops = 0

\* no send() call is under way
NoSend ==
  /\ spc = "out"
  /\ sblock = TRUE
  /\ sres = "none"

\* no connect attempt has failed
NoBackoff ==
  /\ reconnect_base_delay = 1
  /\ reconnect_max_delay = 1
  /\ delay = 0
  /\ slept = << >>

\* no thread is inside _next_seqno
NoAlloc ==
  /\ seqno_lock = ""
  /\ alloc_pc = [t \in {"ogm", "app"} |-> "idle"]
  /\ alloc_read = [t \in {"ogm", "app"} |-> U32(0)]
  /\ allocs = << >>

\* an empty chat store
NoChat == chat_rows = {} /\ chat_result = << >>

\* MeshNode.__init__: not running, no loop spawned
NoMesh ==
  /\ mesh_running = FALSE
  /\ mesh_pc = "out"
  /\ mesh_starts = 0
  /\ loop_pc = [l \in {"ogm", "cleanup"} \X (1..MaxStarts) |-> "none"]

InitAux == NoSend /\ tx_queue_size = TxQueueSize /\ NoBackoff /\ NoAlloc /\ NoChat /\ NoMesh

InitData == InitNodes /\ InitLink /\ InitAux /\ encryption_enabled = TRUE

DataNext == DataInject \/ Tick \/ Cleanup("B")

SpecData == InitData /\ [][DataNext]_vars

(***************************************************************************)
(* Node B hearing DATA frames while it holds routes: the OGM of C, and its *)
(* own OGM as A forwards it back, which _handle_ogm stores like any other. *)
(***************************************************************************)
EchoOgmFrames ==
  { WrapInAx25Ui(Callsign("A"),
      BuildMeshHeader(MESH_MSG_OGM, 0, 1, NodeId("B"), U32(1))
        \o NodeId("A") \o << OWN_LINK_METRIC >>) }

DeliverInject == NodeInject(DataSpecFrames \cup EchoOgmFrames)

\* no sweep: the routes B learns stay, and each key passes the gate once
DeliverNext == DeliverInject \/ Tick

SpecDeliver == InitData /\ [][DeliverNext]_vars

(***************************************************************************)
(* Node B hearing DATA frames that fail the validation of                  *)
(* _handle_data_frame, and well-formed frames that repeat a cached key.    *)
(***************************************************************************)
\* DATA frames of A with a sound mesh header whose body is cut below 12
\* bytes, whose encrypted remainder is cut below 13 bytes, whose tag is
\* damaged, or that claim to be compressed and are not
InvalidDataFrames ==
  { Take(f, AX25_HEADER_LEN + MESH_HEADER_LEN + k) :
      f \in DataFrames, k \in {0, DATA_BODY_MIN - 1} }
    \cup { Take(f, AX25_HEADER_LEN + MESH_HEADER_LEN + DATA_BODY_MIN + ENC_REMAINDER_MIN - 1) :
             f \in {g \in DataFrames : HasFlag(g[AX25_HEADER_LEN + 3], MESH_FLAG_ENCRYPTED)} }
    \cup { [f EXCEPT ![Len(f)] = (@ + 1) % 256] :
             f \in {g \in DataFrames : HasFlag(g[AX25_HEADER_LEN + 3], MESH_FLAG_ENCRYPTED)} }
    \cup { [f EXCEPT ![AX25_HEADER_LEN + 3] = MESH_FLAG_COMPRESSED] :
             f \in {g \in DataFrames : g[AX25_HEADER_LEN + 3] = 0} }

InvalidInject == NodeInject(InvalidDataFrames)

\* a well-formed DATA frame arrives after a frame with its key
RepeatInject ==
  NodeInject({f \in DataFrames :
                << SubSeq(f, AX25_HEADER_LEN + 5, AX25_HEADER_LEN + 12),
                   Unpack32(SubSeq(f, AX25_HEADER_LEN + 13, AX25_HEADER_LEN + 16)) >>
                  \in DOMAIN data_seen["B"]})

RouteInject == NodeInject(RouteOgmFrames)

InvalidNext == InvalidInject \/ RepeatInject \/ RouteInject \/ Tick

SpecInvalid == InitData /\ [][InvalidNext]_vars

(***************************************************************************)
(* Node B hearing malformed frames among well-formed ones.                 *)
(***************************************************************************)
\* frames cut short at the lengths the dispatcher tests, and frames that
\* carry another mesh version
MalformedFrames ==
  { Take(f, k) : f \in DataSpecFrames,
                 k \in {0, AX25_HEADER_LEN, AX25_HEADER_LEN + 1,
                        AX25_HEADER_LEN + MESH_HEADER_LEN - 1} }
    \cup { Take(f, AX25_HEADER_LEN + MESH_HEADER_LEN + k) : f \in RouteOgmFrames,
                                                           k \in {0, OGM_BODY_MIN - 1} }
    \cup { [f EXCEPT ![AX25_HEADER_LEN + 1] = v] : f \in DataSpecFrames,
                                                   v \in {0, MESH_VERSION + 1} }

MalformedInject == NodeInject(MalformedFrames)

\* the clock stands still: what a malformed frame does has nothing to do with age
MalformedNext == MalformedInject \/ DataInject

SpecMalformed == InitData /\ [][MalformedNext]_vars

(***************************************************************************)
(* Node B hearing the OGMs of C, directly and as forwarded by A.           *)
(***************************************************************************)
OgmFrames ==
  { WrapInAx25Ui(Callsign(s),
      BuildMeshHeader(MESH_MSG_OGM, 0, 1, NodeId("C"), U32(q))
        \o NodeId(s) \o << OWN_LINK_METRIC >>) :
    s \in {"A", "C"}, q \in 1..MaxOgmSeq }

OgmInject == NodeInject(OgmFrames)

OgmNext == OgmInject \/ Tick \/ Cleanup("B")

SpecOgm == InitData /\ [][OgmNext]_vars

(***************************************************************************)
(* Node B hearing OGMs of two originators, A and C, each directly and as   *)
(* forwarded by the other with a lower link metric.                        *)
(***************************************************************************)
TableOgmFrames ==
  { WrapInAx25Ui(Callsign(s),
      BuildMeshHeader(MESH_MSG_OGM, 0, 1, NodeId(o), U32(q))
        \o NodeId(s) \o << IF s = o THEN OWN_LINK_METRIC ELSE OWN_LINK_METRIC - 1 >>) :
    s \in {"A", "C"}, o \in {"A", "C"}, q \in 1..MaxOgmSeq }

TableOgmInject == NodeInject(TableOgmFrames)

\* the sweeps of the cleanup thread are left to SpecOgm
TableNext == TableOgmInject \/ Tick

SpecOgmTable == InitData /\ [][TableNext]_vars

(***************************************************************************)
(* The line A - B - C on a lossless channel: each node's OGM loop, A's     *)
(* send_application_data, each link's TX worker putting the head of its    *)
(* queue on the air, and each link's RX worker handing a heard frame to    *)
(* _on_kiss_frame.  The clock stands still, so nothing expires.            *)
(***************************************************************************)
LinePayloads == {PayloadHi, PayloadRun}

\* OGMs emitted so far: _seqno counts a node's OGMs and its DATA sends
OgmCount == seqno["A"][2] + seqno["B"][2] + seqno["C"][2] - Len(sent)

\* frames queued for TX or heard and not yet handled, over all nodes
Pending ==
  Len(txq["A"]) + Len(txq["B"]) + Len(txq["C"])
    + Len(inbox["A"]) + Len(inbox["B"]) + Len(inbox["C"])

\* KISSClient.send of a running client, the queue never full here
Enqueue(n, frames) == txq' = [txq EXCEPT ![n] = @ \o frames]

\* one turn of _ogm_loop at node n
LineOgmEmit(n) ==
  /\ OgmCount < MaxOgm
  /\ Pending < MaxPending
  /\ seqno' = [seqno EXCEPT ![n] = NextSeqno(@)]
  /\ Enqueue(n, << WrapInAx25Ui(Callsign(n),
                     BuildOgmPayload(Callsign(n), NextSeqno(seqno[n]), OgmTtl)) >>)
  /\ rx' = NoRx
  /\ UNCHANGED << linkVars, auxVars, originators, neighbors, data_seen, inbox, cleanup_pc, cleanup_now,
                  cleanup_dead, encryption_enabled, now, evicted, seq_high, app_log, sent >>

\* whether B holds a route to A and one to C
BHasRoutes ==
  /\ NodeId("A") \in DOMAIN originators["B"]
  /\ NodeId("C") \in DOMAIN originators["B"]

\* A.send_application_data(C.id, p), called once B holds both routes
LineSend ==
  \E p \in LinePayloads :
    /\ Len(sent) < MaxSend
    /\ Pending < MaxPending
    /\ BHasRoutes
    /\ seqno' = [seqno EXCEPT !["A"] = NextSeqno(@)]
    /\ Enqueue("A", << WrapInAx25Ui(Callsign("A"),
                         BuildDataPayload(Callsign("A"), encryption_enabled, Nonce,
                                          NodeId("C"), NextSeqno(seqno["A"]), OgmTtl, p)) >>)
    /\ sent' = Append(sent, [seqno |-> NextSeqno(seqno["A"]), payload |-> p])
    /\ rx' = NoRx
    /\ UNCHANGED << linkVars, auxVars, originators, neighbors, data_seen, inbox, cleanup_pc, cleanup_now,
                    cleanup_dead, encryption_enabled, now, evicted, seq_high, app_log >>

\* the TX worker of node n writes the head of its queue; every node in reach hears it
LineTx(n) ==
  /\ txq[n] # << >>
  /\ txq' = [txq EXCEPT ![n] = Tail(@)]
  /\ inbox' = [m \in Nodes |-> IF Linked(n, m) THEN Append(inbox[m], Head(txq[n]))
                               ELSE inbox[m]]
  /\ rx' = NoRx
  /\ UNCHANGED << linkVars, auxVars, originators, neighbors, data_seen, seqno, cleanup_pc, cleanup_now,
                  cleanup_dead, encryption_enabled, now, evicted, seq_high, app_log, sent >>

\* the RX worker of node n hands the next heard frame to _on_kiss_frame
LineRx(n) ==
  /\ inbox[n] # << >>
  /\ \E r \in {OnKissFrame(Callsign(n), encryption_enabled, NodeState(n), now,
                          Head(inbox[n]))} :
         /\ originators' = [originators EXCEPT ![n] = r.originators]
         /\ neighbors' = [neighbors EXCEPT ![n] = r.neighbors]
         /\ data_seen' = [data_seen EXCEPT ![n] = r.data_seen]
         /\ txq' = [txq EXCEPT ![n] = @ \o r.out]
         /\ app_log' = [app_log EXCEPT ![n] = @ \o r.cb]
  /\ inbox' = [inbox EXCEPT ![n] = Tail(@)]
  /\ rx' = NoRx
  /\ UNCHANGED << linkVars, auxVars, seqno, cleanup_pc, cleanup_now, cleanup_dead, encryption_enabled, now,
                  evicted, seq_high, sent >>

LineNext ==
  \/ \E n \in Nodes : LineOgmEmit(n)
  \/ LineSend
  \/ \E n \in Nodes : LineTx(n)
  \/ \E n \in Nodes : LineRx(n)

SpecLine == InitData /\ [][LineNext]_vars

\* the link workers are threads that keep running: while a frame is queued or
\* heard somewhere, some worker takes its next step
FairLine ==
  /\ SpecLine
  /\ WF_vars(\E n \in Nodes : LineTx(n) \/ LineRx(n))

(***************************************************************************)
(* The triangle A, B, C on a lossless channel, every node in reach of both *)
(* others: one node originates one OGM, and nothing else is originated.    *)
(* The queues have no bound here: what ends the flood is the TTL.          *)
(***************************************************************************)
\* the first turn of _ogm_loop at node n, no other node having emitted
FloodOgmEmit(n) ==
  /\ OgmCount = 0
  /\ seqno' = [seqno EXCEPT ![n] = NextSeqno(@)]
  /\ Enqueue(n, << WrapInAx25Ui(Callsign(n),
                     BuildOgmPayload(Callsign(n), NextSeqno(seqno[n]), OgmTtl)) >>)
  /\ rx' = NoRx
  /\ UNCHANGED << linkVars, auxVars, originators, neighbors, data_seen, inbox, cleanup_pc, cleanup_now,
                  cleanup_dead, encryption_enabled, now, evicted, seq_high, app_log, sent >>

\* the TX worker of node n writes the head of its queue; both other nodes hear it
FloodTx(n) ==
  /\ txq[n] # << >>
  /\ txq' = [txq EXCEPT ![n] = Tail(@)]
  /\ inbox' = [m \in Nodes |-> IF m # n THEN Append(inbox[m], Head(txq[n])) ELSE inbox[m]]
  /\ rx' = NoRx
  /\ UNCHANGED << linkVars, auxVars, originators, neighbors, data_seen, seqno, cleanup_pc, cleanup_now,
                  cleanup_dead, encryption_enabled, now, evicted, seq_high, app_log, sent >>

FloodNext ==
  \/ \E n \in Nodes : FloodOgmEmit(n)
  \/ \E n \in Nodes : FloodTx(n)
  \/ \E n \in Nodes : LineRx(n)

SpecFlood == InitData /\ [][FloodNext]_vars

\* the link workers keep running: a queued frame is written, a heard frame handled
FairFlood ==
  /\ SpecFlood
  /\ WF_vars(\E n \in Nodes : FloodTx(n) \/ LineRx(n))

(***************************************************************************)
(* The threads of one MeshNode, A: the thread that calls start() and       *)
(* stop(), and the OGM loop and the cleanup loop every start() spawns.  A  *)
(* loop is <<kind, generation>>.  The link under the node is left out:     *)
(* what the OGM loop sends goes to the node's TX queue.  A join returns    *)
(* when the loop has ended, or on its timeout while the loop sleeps.       *)
(***************************************************************************)
Loops == {"ogm", "cleanup"} \X (1..MaxStarts)

\* what a step of the node's threads leaves alone
exceptMesh == << linkVars, sendVars, tx_queue_size, backoffVars, seqVars, chatVars,
                 inbox, cleanup_pc, cleanup_now, cleanup_dead, encryption_enabled, now,
                 evicted, seq_high, app_log, sent >>

\* MeshNode.start
MeshStart ==
  /\ mesh_pc = "out"
  /\ mesh_starts < MaxStarts
  /\ IF mesh_running
     THEN UNCHANGED << mesh_running, mesh_starts, loop_pc >>
     ELSE /\ mesh_running' = TRUE
          /\ mesh_starts' = mesh_starts + 1
          /\ loop_pc' = [loop_pc EXCEPT ![<< "ogm", mesh_starts + 1 >>] = "test",
                                        ![<< "cleanup", mesh_starts + 1 >>] = "test"]
  /\ rx' = NoRx
  /\ UNCHANGED << mesh_pc, originators, neighbors, data_seen, seqno, txq, exceptMesh >>

\* MeshNode.stop up to the joins: clears the flag and stops the link
MeshStopBegin ==
  /\ mesh_pc = "out"
  /\ mesh_running
  /\ mesh_running' = FALSE
  /\ mesh_pc' = "join_ogm"
  /\ rx' = NoRx
  /\ UNCHANGED << mesh_starts, loop_pc, originators, neighbors, data_seen, seqno, txq,
                  exceptMesh >>

\* self._ogm_thread.join(timeout=5.0)
MeshStopJoinOgm ==
  /\ mesh_pc = "join_ogm"
  /\ loop_pc[<< "ogm", mesh_starts >>] \in {"done", "sleep"}
  /\ mesh_pc' = "join_cleanup"
  /\ rx' = NoRx
  /\ UNCHANGED << mesh_running, mesh_starts, loop_pc, originators, neighbors, data_seen,
                  seqno, txq, exceptMesh >>

\* self._cleanup_thread.join(timeout=5.0); stop() returns
MeshStopJoinCleanup ==
  /\ mesh_pc = "join_cleanup"
  /\ loop_pc[<< "cleanup", mesh_starts >>] \in {"done", "sleep"}
  /\ mesh_pc' = "out"
  /\ rx' = NoRx
  /\ UNCHANGED << mesh_running, mesh_starts, loop_pc, originators, neighbors, data_seen,
                  seqno, txq, exceptMesh >>

\* while self._running.is_set(): of either loop
LoopTest(l) ==
  /\ loop_pc[l] = "test"
  /\ loop_pc' = [loop_pc EXCEPT ![l] = IF mesh_running THEN "work" ELSE "done"]
  /\ rx' = NoRx
  /\ UNCHANGED << mesh_running, mesh_pc, mesh_starts, originators, neighbors, data_seen,
                  seqno, txq, exceptMesh >>

\* one iteration of _ogm_loop up to its sleep
OgmLoopWork(l) ==
  /\ l[1] = "ogm"
  /\ loop_pc[l] = "work"
  /\ OgmCount < MaxOgm
  /\ seqno' = [seqno EXCEPT !["A"] = NextSeqno(@)]
  /\ Enqueue("A", << WrapInAx25Ui(Callsign("A"),
                       BuildOgmPayload(Callsign("A"), NextSeqno(seqno["A"]), OgmTtl)) >>)
  /\ loop_pc' = [loop_pc EXCEPT ![l] = "sleep"]
  /\ rx' = NoRx
  /\ UNCHANGED << mesh_running, mesh_pc, mesh_starts, originators, neighbors, data_seen,
                  exceptMesh >>

\* one iteration of _cleanup_loop up to its sleep, the three sweeps in one
\* step (SpecData takes them apart)
CleanupLoopWork(l) ==
  /\ l[1] = "cleanup"
  /\ loop_pc[l] = "work"
  /\ originators' = [originators EXCEPT
                       !["A"] = DictDel(@, DeadKeys(@, now, RouteExpiry))]
  /\ neighbors' = [neighbors EXCEPT
                     !["A"] = DictDel(@, DeadKeys(@, now, NeighborExpiry))]
  /\ data_seen' = [data_seen EXCEPT
                     !["A"] = DictDel(@, DeadData(@, now, DataSeenExpiry))]
  /\ loop_pc' = [loop_pc EXCEPT ![l] = "sleep"]
  /\ rx' = NoRx
  /\ UNCHANGED << mesh_running, mesh_pc, mesh_starts, seqno, txq, exceptMesh >>

\* time.sleep(...) of either loop returns
LoopWake(l) ==
  /\ loop_pc[l] = "sleep"
  /\ loop_pc' = [loop_pc EXCEPT ![l] = "test"]
  /\ rx' = NoRx
  /\ UNCHANGED << mesh_running, mesh_pc, mesh_starts, originators, neighbors, data_seen,
                  seqno, txq, exceptMesh >>

MeshNext ==
  \/ MeshStart
  \/ MeshStopBegin
  \/ MeshStopJoinOgm
  \/ MeshStopJoinCleanup
  \/ \E l \in Loops : LoopTest(l)
  \/ \E l \in Loops : OgmLoopWork(l)
  \/ \E l \in Loops : CleanupLoopWork(l)
  \/ \E l \in Loops : LoopWake(l)

SpecMesh == InitData /\ [][MeshNext]_vars

(***************************************************************************)
(* The KISS link manager: its operations.                                  *)
(***************************************************************************)
\* the worker has left its loop: by the loop condition or the break
\* ("done"), or by an exception nothing catches ("dead")
Terminated(w) == wpc[w] \in {"done", "dead"}

Alive(w) == wpc[w] \notin {"none", "done", "dead"}

\* positions where a worker stays longer than the join timeout of stop():
\* inside transport I/O, in the backoff sleep (at least the base delay), or
\* waiting for the mutex while another thread holds it
Blocked(w) ==
  \/ wpc[w] \in {"conn_io", "conn_sleep", "rx_read", "tx_write"}
  \/ wpc[w] \in {"conn_lock", "rx_lock", "rx_err", "tx_lock", "tx_err"} /\ lock # << >>

\* (not self._connected.is_set()) or (self._kiss_iface is None)
NoConnection == ~connected \/ kiss_iface = 0

Goto(w, pc) == wpc' = [wpc EXCEPT ![w] = pc]

\* queue.Queue(maxsize).full(): a maxsize of zero or less makes the queue
\* unbounded, it is never full
QueueFull == tx_queue_size > 0 /\ Len(tx_queue) >= tx_queue_size

\* start(): a no-op on a running client, else sets the flag and spawns workers
Start ==
  /\ apc = "out"
  /\ starts < MaxStarts
  /\ IF running
     THEN UNCHANGED << running, rx_thread, tx_thread, wpc, starts >>
     ELSE /\ running' = TRUE
          /\ starts' = starts + 1
          /\ rx_thread' = starts + 1
          /\ tx_thread' = starts + 1
          /\ wpc' = [wpc EXCEPT ![<< "rx", starts + 1 >>] = "rx_top",
                                ![<< "tx", starts + 1 >>] = "tx_top"]
  /\ UNCHANGED << connected, kiss_iface, lock, tx_queue, wframe, apc, stops, accepted, written, io_fails, nodeVars, auxVars >>

\* stop() up to the joins: clears the flag and enqueues the sentinel if it fits
StopBegin ==
  /\ apc = "out"
  /\ running
  /\ running' = FALSE
  /\ tx_queue' = IF QueueFull THEN tx_queue ELSE Append(tx_queue, SENTINEL)
  /\ apc' = "join_rx"
  /\ UNCHANGED << connected, kiss_iface, lock, rx_thread, tx_thread, wpc, wframe, starts, stops, accepted, written, io_fails, nodeVars, auxVars >>

\* self._rx_thread.join(timeout): returns when the worker has ended or the
\* timeout has passed
StopJoinRx ==
  /\ apc = "join_rx"
  /\ Terminated(<< "rx", rx_thread >>) \/ Blocked(<< "rx", rx_thread >>)
  /\ apc' = "join_tx"
  /\ UNCHANGED << running, connected, kiss_iface, lock, tx_queue, rx_thread, tx_thread,
                  wpc, wframe, starts, stops, accepted, written, io_fails,
                  nodeVars, auxVars >>

StopJoinTx ==
  /\ apc = "join_tx"
  /\ Terminated(<< "tx", tx_thread >>) \/ Blocked(<< "tx", tx_thread >>)
  /\ apc' = "close"
  /\ UNCHANGED << running, connected, kiss_iface, lock, tx_queue, rx_thread, tx_thread,
                  wpc, wframe, starts, stops, accepted, written, io_fails,
                  nodeVars, auxVars >>

\* the end of stop(): under the mutex, stops and forgets the transport if
\* there is one, and only then clears the connected flag; then returns
StopClose ==
  /\ apc = "close"
  /\ lock = << >>
  /\ IF kiss_iface # 0
     THEN kiss_iface' = 0 /\ connected' = FALSE
     ELSE UNCHANGED << kiss_iface, connected >>
  /\ apc' = "out"
  /\ stops' = stops + 1
  /\ UNCHANGED << running, lock, tx_queue, rx_thread, tx_thread, wpc, wframe, starts,
                  accepted, written, io_fails, nodeVars, auxVars >>

\* send(frame) by any thread: refused unless running, else put on the queue,
\* waiting while the queue is full
Send ==
  /\ running
  /\ Len(accepted) < MaxFrames
  /\ ~QueueFull
  /\ tx_queue' = Append(tx_queue, Len(accepted) + 1)
  /\ accepted' = Append(accepted, Len(accepted) + 1)
  /\ UNCHANGED << running, connected, kiss_iface, lock, rx_thread, tx_thread, wpc, wframe,
                  apc, starts, stops, written, io_fails, nodeVars, auxVars >>

\* what only start() and stop() write
ctlVars == << running, rx_thread, tx_thread, apc, starts, stops >>

\* _connect_with_backoff, run by worker w; it returns to the caller's re-check
ConnectWithBackoff(w) ==
  \/ /\ wpc[w] = "conn_top"
     /\ IF running /\ ~connected THEN Goto(w, "conn_lock")
        ELSE Goto(w, IF Kind(w) = "rx" THEN "rx_recheck" ELSE "tx_recheck")
     /\ UNCHANGED << connected, kiss_iface, lock, io_fails >>
  \/ /\ wpc[w] = "conn_lock"
     /\ lock = << >>
     /\ lock' = w
     /\ Goto(w, "conn_io")
     /\ UNCHANGED << connected, kiss_iface, io_fails >>
  \/ \* the transport is created and started
     /\ wpc[w] = "conn_io"
     /\ kiss_iface' = 1
     /\ lock' = << >>
     /\ Goto(w, "conn_set")
     /\ UNCHANGED << connected, io_fails >>
  \/ \* creating the transport raises an I/O error
     /\ wpc[w] = "conn_io"
     /\ io_fails < MaxFails
     /\ io_fails' = io_fails + 1
     /\ lock' = << >>
     /\ Goto(w, "conn_fail")
     /\ UNCHANGED << connected, kiss_iface >>
  \/ \* starting the created transport raises an I/O error
     /\ wpc[w] = "conn_io"
     /\ io_fails < MaxFails
     /\ io_fails' = io_fails + 1
     /\ kiss_iface' = 1
     /\ lock' = << >>
     /\ Goto(w, "conn_fail")
     /\ UNCHANGED << connected >>
  \/ /\ wpc[w] = "conn_set"
     /\ connected' = TRUE
     /\ Goto(w, "conn_top")
     /\ UNCHANGED << kiss_iface, lock, io_fails >>
  \/ /\ wpc[w] = "conn_fail"
     /\ connected' = FALSE
     /\ Goto(w, "conn_sleep")
     /\ UNCHANGED << kiss_iface, lock, io_fails >>
  \/ /\ wpc[w] = "conn_sleep"
     /\ Goto(w, "conn_top")
     /\ UNCHANGED << connected, kiss_iface, lock, io_fails >>

\* the I/O-error handlers of both loops: under the mutex, forget the
\* transport and clear the flag; then sleep
DropConnection(w, from, to) ==
  /\ wpc[w] = from
  /\ lock = << >>
  /\ kiss_iface' = 0
  /\ connected' = FALSE
  /\ Goto(w, to)
  /\ UNCHANGED << lock, io_fails >>

\* _rx_loop of worker w, all but the read itself
RxLoop(w) ==
  /\ Kind(w) = "rx"
  /\ \/ /\ wpc[w] = "rx_top"
        /\ Goto(w, IF ~running THEN "done"
                   ELSE IF NoConnection THEN "conn_top" ELSE "rx_lock")
        /\ UNCHANGED << connected, kiss_iface, lock, io_fails >>
     \/ /\ wpc[w] = "rx_recheck"
        /\ Goto(w, IF NoConnection THEN "rx_sleep" ELSE "rx_lock")
        /\ UNCHANGED << connected, kiss_iface, lock, io_fails >>
     \/ /\ wpc[w] \in {"rx_sleep", "rx_err_sleep"}
        /\ Goto(w, "rx_top")
        /\ UNCHANGED << connected, kiss_iface, lock, io_fails >>
     \/ /\ wpc[w] = "rx_lock"
        /\ lock = << >>
        /\ IF kiss_iface = 0
           THEN connected' = FALSE /\ Goto(w, "rx_top") /\ UNCHANGED lock
           ELSE lock' = w /\ Goto(w, "rx_read") /\ UNCHANGED connected
        /\ UNCHANGED << kiss_iface, io_fails >>
     \/ /\ DropConnection(w, "rx_err", "rx_err_sleep")
  /\ UNCHANGED << ctlVars, tx_queue, wframe, accepted, written, nodeVars, auxVars >>

\* the transport's read(callback) raises OSError in worker w: the mutex is
\* released on the way to the handler
RxReadRaises(w) ==
  /\ Kind(w) = "rx"
  /\ wpc[w] = "rx_read"
  /\ io_fails < MaxFails
  /\ io_fails' = io_fails + 1
  /\ lock' = << >>
  /\ Goto(w, "rx_err")
  /\ UNCHANGED << ctlVars, connected, kiss_iface, tx_queue, wframe, accepted, written, nodeVars, auxVars >>

\* the transport's read(callback) returns to worker w, which releases the mutex
RxReadReturns(w) ==
  /\ Kind(w) = "rx"
  /\ wpc[w] = "rx_read"
  /\ lock' = << >>
  /\ Goto(w, "rx_top")
  /\ UNCHANGED << ctlVars, connected, kiss_iface, tx_queue, wframe, accepted, written, io_fails, nodeVars, auxVars >>

\* _tx_loop of worker w
TxLoop(w) ==
  /\ Kind(w) = "tx"
  /\ \/ /\ wpc[w] = "tx_top"
        /\ Goto(w, IF ~running THEN "done" ELSE "tx_get")
        /\ UNCHANGED << connected, kiss_iface, lock, tx_queue, wframe, written,
                        io_fails >>
     \/ \* get(timeout=1.0) returns a frame, or raises Empty
        /\ wpc[w] = "tx_get"
        /\ IF tx_queue = << >>
           THEN Goto(w, "tx_top") /\ UNCHANGED << tx_queue, wframe >>
           ELSE /\ tx_queue' = Tail(tx_queue)
                /\ wframe' = [wframe EXCEPT ![w] = Head(tx_queue)]
                /\ Goto(w, "tx_got")
        /\ UNCHANGED << connected, kiss_iface, lock, written, io_fails >>
     \/ /\ wpc[w] = "tx_got"
        /\ Goto(w, IF ~running THEN "done"
                   ELSE IF wframe[w] = SENTINEL THEN "tx_top"
                   ELSE IF NoConnection THEN "conn_top" ELSE "tx_lock")
        /\ wframe' = [wframe EXCEPT ![w] = IF ~running THEN SENTINEL ELSE @]
        /\ UNCHANGED << connected, kiss_iface, lock, tx_queue, written, io_fails >>
     \/ /\ wpc[w] = "tx_recheck"
        /\ Goto(w, IF NoConnection THEN "tx_top" ELSE "tx_lock")
        /\ wframe' = [wframe EXCEPT ![w] = IF NoConnection THEN SENTINEL ELSE @]
        /\ UNCHANGED << connected, kiss_iface, lock, tx_queue, written, io_fails >>
     \/ \* with the mutex: KISSClientError, which nothing catches, if the
        \* transport is gone
        /\ wpc[w] = "tx_lock"
        /\ lock = << >>
        /\ IF kiss_iface = 0
           THEN /\ Goto(w, "dead")
                /\ wframe' = [wframe EXCEPT ![w] = SENTINEL]
                /\ UNCHANGED lock
           ELSE lock' = w /\ Goto(w, "tx_write") /\ UNCHANGED wframe
        /\ UNCHANGED << connected, kiss_iface, tx_queue, written, io_fails >>
     \/ \* iface.write(frame) succeeds
        /\ wpc[w] = "tx_write"
        /\ written' = Append(written, wframe[w])
        /\ wframe' = [wframe EXCEPT ![w] = SENTINEL]
        /\ lock' = << >>
        /\ Goto(w, "tx_top")
        /\ UNCHANGED << connected, kiss_iface, tx_queue, io_fails >>
     \/ \* iface.write(frame) raises an I/O error: the frame is dropped
        /\ wpc[w] = "tx_write"
        /\ io_fails < MaxFails
        /\ io_fails' = io_fails + 1
        /\ wframe' = [wframe EXCEPT ![w] = SENTINEL]
        /\ lock' = << >>
        /\ Goto(w, "tx_err")
        /\ UNCHANGED << connected, kiss_iface, tx_queue, written >>
     \/ /\ DropConnection(w, "tx_err", "tx_err_sleep")
        /\ UNCHANGED << tx_queue, wframe, written >>
     \/ /\ wpc[w] = "tx_err_sleep"
        /\ Goto(w, "tx_top")
        /\ UNCHANGED << connected, kiss_iface, lock, tx_queue, wframe, written,
                        io_fails >>
  /\ UNCHANGED << ctlVars, accepted, nodeVars, auxVars >>

\* a worker inside _connect_with_backoff
Connect(w) ==
  /\ ConnectWithBackoff(w)
  /\ UNCHANGED << ctlVars, tx_queue, wframe, accepted, written, nodeVars, auxVars >>

LinkNext ==
  \/ Start
  \/ StopBegin
  \/ StopJoinRx
  \/ StopJoinTx
  \/ StopClose
  \/ Send
  \/ \E w \in Workers : Connect(w)
  \/ \E w \in Workers : RxLoop(w)
  \/ \E w \in Workers : RxReadRaises(w)
  \/ \E w \in Workers : RxReadReturns(w)
  \/ \E w \in Workers : TxLoop(w)

InitLinkSpec == InitLink /\ InitNodes /\ InitAux /\ encryption_enabled = TRUE

SpecLink == InitLinkSpec /\ [][LinkNext]_vars

\* every thread that can take a step eventually takes one: a stop() that was
\* called goes on, and so does every worker; only the transport's read may
\* stay in the call for ever (it returns when a frame arrives)
FairLink ==
  /\ SpecLink
  /\ WF_vars(StopJoinRx \/ StopJoinTx \/ StopClose)
  /\ \A w \in Workers : WF_vars(Connect(w) \/ RxLoop(w) \/ TxLoop(w))

\* the same with a mutex that is handed over: a worker that finds the mutex
\* free again and again gets it in the end
FairLinkHandover ==
  /\ FairLink
  /\ \A w \in Workers : SF_vars(Connect(w) \/ RxLoop(w) \/ TxLoop(w))

(***************************************************************************)
(* A thread calling send() during one start() ... stop() of the client.    *)
(***************************************************************************)
\* send() that never tests the running flag
NotRunningNever == FALSE

\* not self._running.is_set(), the test send() begins with
NotRunning == ~running

\* send(frame, block): the test of the running flag; the call ends here with
\* KISSClientError when the client is not running
SendCall(block) ==
  /\ spc = "out"
  /\ sres = "none"
  /\ Len(accepted) < MaxFrames
  /\ IF NotRunning
     THEN sres' = "not_running" /\ UNCHANGED << spc, sblock >>
     ELSE spc' = "put" /\ sblock' = block /\ UNCHANGED sres
  /\ UNCHANGED << exceptSend, linkVars, nodeVars >>

\* send: self._tx_queue.put(frame, block=block, timeout=None); queue.Full
\* becomes KISSClientError, a blocking put waits for room
SendPut ==
  /\ spc = "put"
  /\ IF QueueFull
     THEN /\ ~sblock
          /\ sres' = "queue_full"
          /\ UNCHANGED << tx_queue, accepted >>
     ELSE /\ tx_queue' = Append(tx_queue, Len(accepted) + 1)
          /\ accepted' = Append(accepted, Len(accepted) + 1)
          /\ sres' = "ok"
  /\ spc' = "out"
  /\ UNCHANGED << running, connected, kiss_iface, lock, rx_thread, tx_thread, wpc, wframe,
                  apc, starts, stops, written, io_fails, sblock, exceptSend, nodeVars >>

\* the caller has seen how its call ended
SendReturned ==
  /\ spc = "out"
  /\ sres # "none"
  /\ sres' = "none"
  /\ UNCHANGED << spc, sblock, exceptSend, linkVars, nodeVars >>

\* the first start() of the client
StartOnce == starts = 0 /\ Start

SendNext ==
  \/ StartOnce
  \/ StopBegin
  \/ StopJoinRx
  \/ StopJoinTx
  \/ StopClose
  \/ \E block \in BOOLEAN : SendCall(block)
  \/ SendPut
  \/ SendReturned
  \/ \E w \in Workers : Connect(w)
  \/ \E w \in Workers : RxLoop(w)
  \/ \E w \in Workers : RxReadRaises(w)
  \/ \E w \in Workers : RxReadReturns(w)
  \/ \E w \in Workers : TxLoop(w)

\* the client is configured with any queue size up to TxQueueSize
InitSend ==
  /\ InitLink
  /\ InitNodes
  /\ encryption_enabled = TRUE
  /\ NoSend
  /\ NoBackoff
  /\ NoAlloc
  /\ NoChat
  /\ NoMesh
  /\ tx_queue_size \in 0..TxQueueSize

SpecSend == InitSend /\ [][SendNext]_vars

(***************************************************************************)
(* The delay of _connect_with_backoff.  Delays are whole seconds here, so  *)
(* that doubling is exact as it is for the floats of the program.          *)
(***************************************************************************)
\* a client configured with base <= max, outside _connect_with_backoff
InitBackoff ==
  /\ InitLink
  /\ InitNodes
  /\ encryption_enabled = TRUE
  /\ NoSend
  /\ NoAlloc
  /\ NoChat
  /\ NoMesh
  /\ tx_queue_size = TxQueueSize
  /\ reconnect_base_delay \in 1..MaxBaseDelay
  /\ reconnect_max_delay \in reconnect_base_delay..MaxMaxDelay
  /\ delay = 0
  /\ slept = << >>

\* a worker enters _connect_with_backoff: delay = reconnect_base_delay
BackoffEnter ==
  /\ delay' = reconnect_base_delay
  /\ slept' = << >>
  /\ UNCHANGED << reconnect_base_delay, reconnect_max_delay, exceptBackoff >>

\* one failed attempt: time.sleep(delay), then the delay is doubled if it
\* is below reconnect_max_delay
BackoffFail ==
  /\ delay # 0
  /\ Len(slept) < MaxRetries
  /\ slept' = Append(slept, delay)
  /\ delay' = IF delay < reconnect_max_delay THEN delay * 2 ELSE delay
  /\ UNCHANGED << reconnect_base_delay, reconnect_max_delay, exceptBackoff >>

\* the attempt succeeds or the client stops: the run is over
BackoffLeave ==
  /\ delay # 0
  /\ delay' = 0
  /\ UNCHANGED << slept, reconnect_base_delay, reconnect_max_delay, exceptBackoff >>

BackoffNext == BackoffEnter \/ BackoffFail \/ BackoffLeave

SpecBackoff == InitBackoff /\ [][BackoffNext]_vars

(***************************************************************************)
(* Sequence-number allocation at node A by the OGM emitter thread and an   *)
(* application thread calling send_application_data.                       *)
(***************************************************************************)
exceptSeq == << originators, neighbors, data_seen, txq, inbox, cleanup_pc, cleanup_now,
               cleanup_dead, encryption_enabled, now, rx, evicted, seq_high, app_log, sent,
               linkVars, sendVars, tx_queue_size, backoffVars, chatVars, meshVars >>

Allocators == {"ogm", "app"}

\* counter values the node may have reached: 0 after construction, and the
\* values below a carry and below the wrap
SeqStarts == {U32(0), << 0, 65535 >>, << 65535, 65534 >>, << 65535, 65535 >>}

\* with the lock never taken, for comparison
SeqnoLockFreeAlways == TRUE

\* self._seqno_lock can be acquired
SeqnoLockFree == seqno_lock = ""

InitSeq ==
  /\ \E s \in SeqStarts : InitNodesWith([n \in Nodes |-> IF n = "A" THEN s ELSE U32(0)])
  /\ InitLink
  /\ NoSend /\ tx_queue_size = TxQueueSize /\ NoBackoff /\ NoAlloc /\ NoChat /\ NoMesh
  /\ encryption_enabled = TRUE

\* _build_ogm_payload or send_application_data calls _next_seqno
AllocCall(t) ==
  /\ alloc_pc[t] = "idle"
  /\ Len(allocs) + Cardinality({u \in Allocators : alloc_pc[u] # "idle"}) < MaxAlloc
  /\ alloc_pc' = [alloc_pc EXCEPT ![t] = "acquire"]
  /\ UNCHANGED << seqno, seqno_lock, alloc_read, allocs, exceptSeq >>

\* with self._seqno_lock:
AllocAcquire(t) ==
  /\ alloc_pc[t] = "acquire"
  /\ SeqnoLockFree
  /\ seqno_lock' = t
  /\ alloc_pc' = [alloc_pc EXCEPT ![t] = "read"]
  /\ UNCHANGED << seqno, alloc_read, allocs, exceptSeq >>

\* the right-hand side reads self._seqno
AllocRead(t) ==
  /\ alloc_pc[t] = "read"
  /\ alloc_read' = [alloc_read EXCEPT ![t] = seqno["A"]]
  /\ alloc_pc' = [alloc_pc EXCEPT ![t] = "write"]
  /\ UNCHANGED << seqno, seqno_lock, allocs, exceptSeq >>

\* self._seqno = (value read + 1) & 0xFFFFFFFF
AllocWrite(t) ==
  /\ alloc_pc[t] = "write"
  /\ seqno' = [seqno EXCEPT !["A"] = NextSeqno(alloc_read[t])]
  /\ alloc_pc' = [alloc_pc EXCEPT ![t] = "return"]
  /\ UNCHANGED << seqno_lock, alloc_read, allocs, exceptSeq >>

\* return self._seqno, leaving the with-block
AllocReturn(t) ==
  /\ alloc_pc[t] = "return"
  /\ allocs' = Append(allocs, [by |-> t, was |-> alloc_read[t], seqno |-> seqno["A"]])
  /\ seqno_lock' = IF seqno_lock = t THEN "" ELSE seqno_lock
  /\ alloc_pc' = [alloc_pc EXCEPT ![t] = "idle"]
  /\ UNCHANGED << seqno, alloc_read, exceptSeq >>

SeqNext ==
  \E t \in Allocators :
    AllocCall(t) \/ AllocAcquire(t) \/ AllocRead(t) \/ AllocWrite(t) \/ AllocReturn(t)

SpecSeq == InitSeq /\ [][SeqNext]_vars

(***************************************************************************)
(* The chat store: the table chat_messages and the query of the latest     *)
(* messages of a channel.  Nick and text of a row play no part in either.  *)
(***************************************************************************)
Channels == {"#a", "#b"}

\* the rows a call of add_message can insert
ChatRows == [seqno : 1..MaxRows, channel : Channels, ts : 0..MaxTs]

InitChat ==
  /\ InitNodes /\ InitLink /\ encryption_enabled = TRUE
  /\ NoSend /\ tx_queue_size = TxQueueSize /\ NoBackoff /\ NoAlloc /\ NoMesh
  /\ chat_rows = {}
  /\ chat_result = << >>

\* add_message: INSERT OR IGNORE under UNIQUE(origin_id, seqno)
AddMessage(row) ==
  /\ chat_rows' = IF \E r \in chat_rows : r.seqno = row.seqno THEN chat_rows
                  ELSE chat_rows \cup {row}
  /\ chat_result' = << >>
  /\ UNCHANGED exceptChat

\* the orders in which ORDER BY ts ASC can return the rows of S: rows of
\* equal ts come in any order
OrderByTsAsc(S) ==
  { q \in [1..Cardinality(S) -> S] :
      /\ \A i, j \in 1..Cardinality(S) : i # j => q[i] # q[j]
      /\ \A i, j \in 1..Cardinality(S) : i < j => q[i].ts <= q[j].ts }

\* LIMIT n: the first n rows, all of them for a negative n
Limit(q, n) == IF n < 0 \/ n >= Len(q) THEN q ELSE SubSeq(q, 1, n)

\* get_recent_messages(channel, limit)
GetRecentMessages(channel, limit) ==
  /\ \E q \in OrderByTsAsc({r \in chat_rows : r.channel = channel}) :
       chat_result' = [channel |-> channel, limit |-> limit, rows |-> Limit(q, limit)]
  /\ UNCHANGED << chat_rows, exceptChat >>

ChatNext ==
  \/ \E row \in ChatRows : AddMessage(row)
  \/ \E channel \in Channels, limit \in 0..MaxLimit : GetRecentMessages(channel, limit)

SpecChat == InitChat /\ [][ChatNext]_vars

(***************************************************************************)
(* The received frame of rx, as the dispatcher reads it.                   *)
(***************************************************************************)
InfoOf(frame) == Drop(frame, AX25_HEADER_LEN)

HeaderOf(frame) == ParseMeshHeader(InfoOf(frame))

BodyOf(frame) == Drop(InfoOf(frame), MESH_HEADER_LEN)

KeyOf(frame) == << HeaderOf(frame).origin_id, HeaderOf(frame).seqno >>

DestOf(frame) == SubSeq(BodyOf(frame), 1, NODE_ID_LEN)

\* whether node n, with the key not cached, hands the DATA frame to the application
Deliverable(n, frame) ==
  /\ FrameKind(frame) = "data"
  /\ DataOutcome(Callsign(n), encryption_enabled, originators[n],
                 HeaderOf(frame).origin_id, HeaderOf(frame).ttl,
                 HeaderOf(frame).flags, BodyOf(frame)).kind = "deliver"

(***************************************************************************)
(* Claims about one node.                                                  *)
(***************************************************************************)

\* C1: at node B every DATA frame causes at most one callback or forward and
\* leaves its key (origin_id, header seqno) in the dedup cache; a DATA frame
\* whose key is already cached causes no callback and no send and changes no
\* table; and a key leaves the cache only when the cleanup sweep evicts it.
\* So between two evictions of a key all frames carrying it cause together
\* at most one callback and at most one forwarded frame.
DedupAtMostOnce ==
  [][ /\ (rx'.node = "B" /\ FrameKind(rx'.frame) = "data") =>
           /\ Len(rx'.cb) + Len(rx'.out) <= 1
           /\ KeyOf(rx'.frame) \in DOMAIN data_seen'["B"]
           /\ (KeyOf(rx'.frame) \in DOMAIN data_seen["B"] =>
                 /\ rx'.cb = << >>
                 /\ rx'.out = << >>
                 /\ originators' = originators
                 /\ neighbors' = neighbors
                 /\ data_seen' = data_seen)
      /\ \A k \in (DOMAIN data_seen["B"]) \ (DOMAIN data_seen'["B"]) :
           cleanup_pc["B"] = "del_data" /\ k \in cleanup_dead["B"]
    ]_vars

\* C1 witness: a DATA frame addressed to B itself was dropped by the dedup gate
DedupDropReached ==
  /\ rx.node = "B"
  /\ FrameKind(rx.frame) = "data"
  /\ DestOf(rx.frame) = NodeId("B")
  /\ rx.cb = << >>
  /\ rx.out = << >>

\* C3: every frame B sends as the forward of a received OGM or DATA frame with
\* TTL t is of the same type and carries TTL t - 1 >= 1, and a received frame
\* with TTL <= 1 makes B send nothing.
TtlMonotone ==
  (rx.node = "B" /\ FrameKind(rx.frame) \in {"ogm", "data"}) =>
    /\ \A i \in 1..Len(rx.out) :
         /\ HeaderOf(rx.out[i]).msg_type = HeaderOf(rx.frame).msg_type
         /\ HeaderOf(rx.out[i]).ttl = HeaderOf(rx.frame).ttl - 1
         /\ HeaderOf(rx.out[i]).ttl >= 1
    /\ (HeaderOf(rx.frame).ttl <= 1 => rx.out = << >>)

\* C3 witness: B forwarded a DATA frame that arrived with hops to spare
TtlForwardReached ==
  /\ rx.node = "B"
  /\ FrameKind(rx.frame) = "data"
  /\ HeaderOf(rx.frame).ttl = MaxTtl
  /\ Len(rx.out) = 1

\* C4 as claimed: the last_seqno B stores for an originator is never smaller
\* than one it stored for that originator earlier, cleanup sweeps included.
SeqnoNeverBelowEarlier ==
  \A o \in DOMAIN originators["B"] :
    ~U32Greater(seq_high["B"][o], originators["B"][o].last_seqno)

\* C4 as amended: while the entry of an originator stays in B's table its
\* last_seqno never decreases, and an entry leaves the table only when the
\* cleanup sweep evicts it.
SeqnoMonotoneWhileStored ==
  [][ /\ \A o \in (DOMAIN originators["B"]) \cap (DOMAIN originators'["B"]) :
           ~U32Greater(originators["B"][o].last_seqno, originators'["B"][o].last_seqno)
      /\ \A o \in (DOMAIN originators["B"]) \ (DOMAIN originators'["B"]) :
           cleanup_pc["B"] = "del_orig" /\ o \in cleanup_dead["B"]
    ]_vars

\* C4 witness: B heard an OGM older than the entry it holds, and kept the entry
OlderOgmIgnoredReached ==
  /\ rx.node = "B"
  /\ FrameKind(rx.frame) = "ogm"
  /\ HeaderOf(rx.frame).origin_id \in DOMAIN originators["B"]
  /\ U32Greater(originators["B"][HeaderOf(rx.frame).origin_id].last_seqno,
                HeaderOf(rx.frame).seqno)

\* C5 as claimed: a DATA frame addressed to B is dropped by the dedup gate
\* only while the age of its cached key is at most data_seen_expiry.
DedupBlocksOnlyUntilExpiry ==
  ( /\ rx.node = "B"
    /\ Deliverable("B", rx.frame)
    /\ KeyOf(rx.frame) \in DOMAIN data_seen["B"]
    /\ now - data_seen["B"][KeyOf(rx.frame)] > DataSeenExpiry )
  => rx.cb # << >>

\* C5 as amended: a DATA frame addressed to B is handed to the application
\* exactly when its key is not in the cache on arrival, whatever the age of
\* the key; and a key is evicted only by a cleanup sweep, and only when its
\* age exceeded data_seen_expiry at the time the sweep read the clock.
DedupBlocksUntilSwept ==
  [][ /\ (rx'.node = "B" /\ Deliverable("B", rx'.frame)) =>
           (rx'.cb # << >> <=> KeyOf(rx'.frame) \notin DOMAIN data_seen["B"])
      /\ \A k \in (DOMAIN data_seen["B"]) \ (DOMAIN data_seen'["B"]) :
           /\ cleanup_pc["B"] = "del_data"
           /\ cleanup_now["B"] - data_seen["B"][k] > DataSeenExpiry
    ]_vars

\* C5 witness: a frame whose key a sweep had evicted was delivered again
RedeliveryAfterSweepReached ==
  /\ rx.node = "B"
  /\ FrameKind(rx.frame) = "data"
  /\ KeyOf(rx.frame) \in evicted["B"]
  /\ rx.cb # << >>

\* C6: the mesh payload of a DATA frame B forwards is as long as the received
\* one and equal to it in every byte but the TTL byte: version, msg_type,
\* flags, origin_id, seqno and the whole body are those received.
ForwardOpacity ==
  (rx.node = "B" /\ FrameKind(rx.frame) = "data") =>
    \A i \in 1..Len(rx.out) :
      /\ Len(InfoOf(rx.out[i])) = Len(InfoOf(rx.frame))
      /\ \A j \in 1..Len(InfoOf(rx.frame)) :
           j # 4 => InfoOf(rx.out[i])[j] = InfoOf(rx.frame)[j]
      /\ BodyOf(rx.out[i]) = BodyOf(rx.frame)

\* C6 witness: B forwarded a DATA frame whose body is compressed and encrypted
OpaqueForwardReached ==
  /\ rx.node = "B"
  /\ FrameKind(rx.frame) = "data"
  /\ HeaderOf(rx.frame).flags = MESH_FLAG_COMPRESSED + MESH_FLAG_ENCRYPTED
  /\ Len(rx.out) = 1

(***************************************************************************)
(* Claims about the line A - B - C.                                        *)
(***************************************************************************)
\* what C's application is called with for the i-th send of A
SentCallback(i) == << NodeId("A"), NodeId("C"), sent[i].seqno, sent[i].payload >>

\* how often C's application has been called with it
DeliveredCount(i) ==
  Cardinality({j \in 1..Len(app_log["C"]) : app_log["C"][j] = SentCallback(i)})

WrittenInAcceptedOrder ==
  \A i, j \in 1..Len(written) : i < j => written[i] < written[j]

\* C8: a worker terminates only when stop() has cleared the running flag;
\* while the flag is set no worker ends, whatever connect, read or write
\* raises.
NoExitWhileRunning ==
  [][\A w \in Workers : (~Terminated(w) /\ Terminated(w)') => ~running]_vars

\* C9: every stop() called on a running client eventually returns.
StopReturns == (apc # "out") ~> (apc = "out")

\* C10: after stop() has returned and until the next start(), is_connected()
\* is false and the client holds no transport object.
ClosedAfterStop ==
  (apc = "out" /\ starts >= 1 /\ ~running) => (~connected /\ kiss_iface = 0)

(***************************************************************************)
(* Claims about send().                                                    *)
(***************************************************************************)
\* the client has not been started yet, or its last stop() has returned
NotStarted == apc = "out" /\ stops = starts

\* this step is a thread entering send()
SendInvoked == spc = "out" /\ sres = "none" /\ (spc' # spc \/ sres' # sres)

\* C11: a send() invoked before the first start() or after stop() has
\* returned ends with the not-running error and leaves the TX queue as it was.
SendRefusedWhenNotRunning ==
  [][(NotStarted /\ SendInvoked) =>
       (sres' = "not_running" /\ spc' = "out" /\ tx_queue' = tx_queue /\ accepted' = accepted)]_vars

\* C11 witness: stop() has returned with a frame still queued, and a send()
\* made after that was refused
SendAfterStopRefusedReached ==
  /\ stops = 1
  /\ apc = "out"
  /\ sres = "not_running"
  /\ tx_queue # << >>

\* C12: the TX queue never holds more than tx_queue_size items, the shutdown
\* sentinel included; a non-blocking send() that finds the queue full ends
\* with the queue-full error and leaves the queue as it was.
QueueBounded ==
  /\ [](Len(tx_queue) <= tx_queue_size)
  /\ [][(spc = "put" /\ ~sblock /\ Len(tx_queue) = tx_queue_size /\ spc' = "out") =>
          (sres' = "queue_full" /\ tx_queue' = tx_queue /\ accepted' = accepted)]_vars

\* with a positive tx_queue_size the bound holds
QueueBoundedWhenPositive == [](tx_queue_size > 0 => Len(tx_queue) <= tx_queue_size)

\* on a running client a non-blocking send() was refused by a full queue
QueueFullRefusedReached ==
  /\ running
  /\ sres = "queue_full"
  /\ Len(tx_queue) = tx_queue_size

(***************************************************************************)
(* Claims about the reconnect delay.                                       *)
(***************************************************************************)
RECURSIVE Pow2(_)
Pow2(n) == IF n = 0 THEN 1 ELSE 2 * Pow2(n - 1)

Min(a, b) == IF a <= b THEN a ELSE b

\* C13: within one run of _connect_with_backoff the delay slept after the
\* n-th failure in a row is min(base * 2^(n-1), max), so no sleep is longer
\* than reconnect_max_delay.
BackoffDelayCapped ==
  \A n \in 1..Len(slept) :
    slept[n] = Min(reconnect_base_delay * Pow2(n - 1), reconnect_max_delay)

(***************************************************************************)
(* Claims about start().                                                   *)
(***************************************************************************)
\* C14: for any sequence of start() and stop() calls at most one RX worker
\* and at most one TX worker of the client are alive at any time.
OneWorkerOfAKind ==
  \A k \in {"rx", "tx"} : Cardinality({w \in Workers : Kind(w) = k /\ Alive(w)}) <= 1

(***************************************************************************)
(* Claims about sequence numbers.                                          *)
(***************************************************************************)
\* (v + 1) mod 2^32 on the two 16-bit halves of v
Inc32(v) == << (v[1] + (IF v[2] = 65535 THEN 1 ELSE 0)) % 65536, (v[2] + 1) % 65536 >>

\* C15: each allocation returns (previous value + 1) mod 2^32, 0xFFFFFFFF
\* being followed by 0, and whatever the interleaving of the OGM emitter and
\* the application thread no two allocations return the same value.
SeqnoAllocation ==
  /\ \A i \in 1..Len(allocs) :
       /\ allocs[i].seqno = Inc32(allocs[i].was)
       /\ i > 1 => allocs[i].was = allocs[i - 1].seqno
  /\ \A i, j \in 1..Len(allocs) : i # j => allocs[i].seqno # allocs[j].seqno

\* C15 witness: the counter wrapped from 0xFFFFFFFF to 0 between an
\* allocation of one thread and the next one, made by the other thread
SeqnoWrapReached ==
  /\ Len(allocs) >= 2
  /\ \E i \in 1..Len(allocs) - 1 :
       /\ allocs[i].seqno = << 65535, 65535 >>
       /\ allocs[i + 1].seqno = << 0, 0 >>
       /\ allocs[i].by # allocs[i + 1].by

(***************************************************************************)
(* Claims about malformed frames.                                          *)
(***************************************************************************)
\* the frame is malformed: no longer than the AX.25 header, an information
\* field shorter than the mesh header, another version, or an OGM whose body
\* is shorter than 9 bytes
Malformed(frame) ==
  \/ Len(frame) <= 16
  \/ Len(frame) - 16 < 16
  \/ frame[17] # 1
  \/ frame[18] = MESH_MSG_OGM /\ Len(frame) - 32 < 9

\* C16: a malformed frame is dropped with no effect: originator table,
\* neighbor table and dedup cache stay as they are, nothing is enqueued for
\* transmission and no callback is invoked.
MalformedDropped ==
  [][(rx'.node = "B" /\ Malformed(rx'.frame)) =>
       /\ originators' = originators
       /\ neighbors' = neighbors
       /\ data_seen' = data_seen
       /\ txq' = txq
       /\ rx'.out = << >>
       /\ rx'.cb = << >>
       /\ app_log' = app_log]_vars

\* C16 witness: B, holding a route and a dedup key, has dropped a frame of
\* full length that carries another mesh version
MalformedDropReached ==
  /\ rx.node = "B"
  /\ Len(rx.frame) > 32
  /\ rx.frame[17] # 1
  /\ originators["B"] # EmptyDict
  /\ data_seen["B"] # EmptyDict

(***************************************************************************)
(* Claims about the chat store.                                            *)
(***************************************************************************)
\* C17: when the channel holds more than `limit` messages,
\* get_recent_messages(channel, limit) returns the `limit` messages with the
\* greatest timestamps, in ascending order of timestamp.
RecentAreLatest ==
  chat_result # << >> =>
    LET held == {r \in chat_rows : r.channel = chat_result.channel}
        got == chat_result.rows
    IN  Cardinality(held) > chat_result.limit =>
          /\ Len(got) = chat_result.limit
          /\ \A i \in 1..Len(got) : got[i] \in held
          /\ \A i, j \in 1..Len(got) : i < j => got[i].ts <= got[j].ts
          /\ \A r \in held : (\A i \in 1..Len(got) : got[i] # r) =>
                               \A i \in 1..Len(got) : r.ts <= got[i].ts

(***************************************************************************)
(* Claims about the locking of the tables.                                 *)
(***************************************************************************)
\* C18: the cleanup thread holds the dedup lock from its scan of the cache
\* to its last deletion, so the RX thread inserts no key while a sweep of
\* the cache is under way.
NoInsertDuringSweep ==
  [][cleanup_pc["B"] = "del_data" =>
       (DOMAIN data_seen'["B"]) \subseteq (DOMAIN data_seen["B"])]_vars

\* C19: the cleanup thread evicts an originator or neighbor entry only if
\* the entry is still expired (now - last_seen > expiry, with the now of the
\* sweep) at the moment of its deletion: no RX update comes between the
\* scan and the deletions.
EvictedOnlyIfExpired ==
  [][/\ (cleanup_pc["B"] = "del_orig" /\ cleanup_pc'["B"] = "scan_nei") =>
          \A k \in (DOMAIN originators["B"]) \ (DOMAIN originators'["B"]) :
             Expired(cleanup_now["B"], originators["B"][k].last_seen, RouteExpiry)
     /\ (cleanup_pc["B"] = "del_nei" /\ cleanup_pc'["B"] = "scan_data") =>
          \A k \in (DOMAIN neighbors["B"]) \ (DOMAIN neighbors'["B"]) :
             Expired(cleanup_now["B"], neighbors["B"][k].last_seen, NeighborExpiry)]_vars

\* the originator entry an OGM heard at time `at` writes
OgmEntry(frame, at) ==
  [best_next_hop |-> SubSeq(BodyOf(frame), 1, 8), last_seqno |-> HeaderOf(frame).seqno,
   metric |-> BodyOf(frame)[9], last_seen |-> at]

\* C20: on reception of an OGM the neighbor entry of the previous hop is
\* refreshed; the originator entry of its origin is inserted if absent,
\* replaced in all four fields if the seqno is strictly greater than the
\* stored one, and left as it is, last_seen included, otherwise; the
\* entries of all other originators are unchanged.
OgmUpdatesTables ==
  [][(rx'.node = "B" /\ FrameKind(rx'.frame) = "ogm") =>
       \E o \in {HeaderOf(rx'.frame).origin_id}, p \in {SubSeq(BodyOf(rx'.frame), 1, 8)} :
         /\ p \in DOMAIN neighbors'["B"]
         /\ neighbors'["B"][p] = [last_seen |-> now, link_metric |-> BodyOf(rx'.frame)[9]]
         /\ o \in DOMAIN originators'["B"]
         /\ o \notin DOMAIN originators["B"] =>
              originators'["B"][o] = OgmEntry(rx'.frame, now)
         /\ (/\ o \in DOMAIN originators["B"]
             /\ U32Greater(HeaderOf(rx'.frame).seqno, originators["B"][o].last_seqno)) =>
              originators'["B"][o] = OgmEntry(rx'.frame, now)
         /\ (/\ o \in DOMAIN originators["B"]
             /\ ~U32Greater(HeaderOf(rx'.frame).seqno, originators["B"][o].last_seqno)) =>
              originators'["B"][o] = originators["B"][o]
         /\ DOMAIN originators'["B"] = (DOMAIN originators["B"]) \cup {o}
         /\ \A k \in (DOMAIN originators["B"]) \ {o} :
              originators'["B"][k] = originators["B"][k]]_vars

\* C20 witness: B holds entries of two originators and has just heard, at a
\* later time and over another hop, an OGM of one of them that is not newer
\* than the stored entry, which it kept with its old last_seen
StaleOgmLeftEntryReached ==
  /\ rx.node = "B"
  /\ FrameKind(rx.frame) = "ogm"
  /\ Cardinality(DOMAIN originators["B"]) = 2
  /\ \E o \in {HeaderOf(rx.frame).origin_id} :
       /\ o \in DOMAIN originators["B"]
       /\ ~U32Greater(HeaderOf(rx.frame).seqno, originators["B"][o].last_seqno)
       /\ originators["B"][o].last_seen < now
       /\ originators["B"][o].best_next_hop # SubSeq(BodyOf(rx.frame), 1, 8)
       /\ neighbors["B"][SubSeq(BodyOf(rx.frame), 1, 8)].last_seen = now

\* C21: for a DATA frame that passes the dedup gate of B, the callback is
\* made only if the dest_id of the body is B's own ID, and such a frame is
\* never forwarded whatever its TTL; a frame for another destination is
\* forwarded only if its TTL > 1 and the originator table holds an entry
\* for dest_id, and otherwise nothing is enqueued.
DeliverOrForward ==
  [][(/\ rx'.node = "B"
      /\ FrameKind(rx'.frame) = "data"
      /\ KeyOf(rx'.frame) \notin DOMAIN data_seen["B"]
      /\ Len(BodyOf(rx'.frame)) >= 8) =>
       \E dest \in {SubSeq(BodyOf(rx'.frame), 1, 8)} :
         /\ rx'.cb # << >> => dest = NodeId("B")
         /\ dest = NodeId("B") => rx'.out = << >>
         /\ (dest # NodeId("B") /\ rx'.out # << >>) =>
              (HeaderOf(rx'.frame).ttl > 1 /\ dest \in DOMAIN originators["B"])]_vars

\* C21 witness: B, holding an originator entry for its own ID, received a
\* DATA frame addressed to itself with hops to spare, made the callback and
\* enqueued nothing
DeliveredNotForwardedReached ==
  /\ rx.node = "B"
  /\ FrameKind(rx.frame) = "data"
  /\ SubSeq(BodyOf(rx.frame), 1, 8) = NodeId("B")
  /\ HeaderOf(rx.frame).ttl > 1
  /\ NodeId("B") \in DOMAIN originators["B"]
  /\ Len(rx.cb) = 1
  /\ rx.out = << >>

\* the frames queued for TX or heard and not yet handled at any node
PendingFrames ==
  UNION { { txq[n][i] : i \in 1..Len(txq[n]) } \cup { inbox[n][i] : i \in 1..Len(inbox[n]) } :
          n \in Nodes }

OneTransportOpen ==
  [][\A w \in Workers :
       (wpc[w] = "conn_io" /\ wpc'[w] = "conn_set" /\ io_fails = 0) => kiss_iface = 0]_vars

\* C24: a loop that was running when stop() cleared the running flag exits
\* at its next wake without another iteration, whatever start() and stop()
\* calls follow: a loop never begins an iteration once a later start() has
\* spawned the loops of the next generation.
StoppedLoopExits ==
  [][\A l \in Loops :
       (loop_pc[l] = "test" /\ loop_pc'[l] = "work") => l[2] = mesh_starts]_vars

\* whether a DATA frame fails the validation that follows the dedup gate,
\* read off its bytes as B, which decrypts, sees them
InvalidData(frame) ==
  /\ FrameKind(frame) = "data"
  /\ DataOutcome(Callsign("B"), encryption_enabled, EmptyDict, HeaderOf(frame).origin_id,
                 HeaderOf(frame).ttl, HeaderOf(frame).flags, BodyOf(frame)).kind
       \in {"short", "short_enc", "decrypt_fail", "decompress_fail"}

\* C25: the key of a received DATA frame is cached before the frame is
\* validated: a frame that fails the validation leaves its key in the cache
\* and causes no callback and no forward, and a frame whose key is cached is
\* dropped without callback or forward, however well-formed it is.
KeyCachedBeforeValidation ==
  [][(rx'.node = "B" /\ FrameKind(rx'.frame) = "data") =>
       /\ KeyOf(rx'.frame) \in DOMAIN data_seen'["B"]
       /\ InvalidData(rx'.frame) => (rx'.cb = << >> /\ rx'.out = << >>)
       /\ KeyOf(rx'.frame) \in DOMAIN data_seen["B"] =>
            (rx'.cb = << >> /\ rx'.out = << >> /\ data_seen' = data_seen)]_vars

\* C25 witness: B has dropped a frame addressed to itself that it would
\* have delivered, because a frame that failed the validation had left the
\* key in the cache (in SpecInvalid nothing else puts a key there)
PoisonedKeyDropReached ==
  /\ rx.node = "B"
  /\ Deliverable("B", rx.frame)
  /\ KeyOf(rx.frame) \in DOMAIN data_seen["B"]
  /\ rx.cb = << >>
  /\ rx.out = << >>

\* C26: while the link runs and the transport raises no I/O error, every
\* frame send() accepted is eventually written to the transport, also
\* while the RX worker is inside read().
AcceptedIsWritten ==
  \A i \in 1..MaxFrames :
    (Len(accepted) >= i) ~>
      ((\E j \in 1..Len(written) : written[j] = i) \/ ~running \/ io_fails > 0)

\* C27: in every reachable state of the link the connected flag being set
\* implies that the client holds a transport object.
ConnectedHoldsTransport == connected => kiss_iface # 0

(***************************************************************************)
(* The line A - B - C with a sender whose ogm_ttl is the default: B and C  *)
(* announce themselves, A sends DATA to C, and every node hears what its   *)
(* neighbours write.  A hears its own frame when B forwards it.            *)
(***************************************************************************)
\* RoutingConfig.ogm_ttl of node A, the default
DEFAULT_OGM_TTL == 5

\* A.send_application_data(C.id, p)
EchoSend ==
  \E p \in LinePayloads :
    /\ Len(sent) < MaxSend
    /\ Pending < MaxPending
    /\ seqno' = [seqno EXCEPT !["A"] = NextSeqno(@)]
    /\ Enqueue("A", << WrapInAx25Ui(Callsign("A"),
                         BuildDataPayload(Callsign("A"), encryption_enabled, Nonce,
                                          NodeId("C"), NextSeqno(seqno["A"]),
                                          DEFAULT_OGM_TTL, p)) >>)
    /\ sent' = Append(sent, [seqno |-> NextSeqno(seqno["A"]), payload |-> p])
    /\ rx' = NoRx
    /\ UNCHANGED << linkVars, auxVars, originators, neighbors, data_seen, inbox, cleanup_pc, cleanup_now,
                    cleanup_dead, encryption_enabled, now, evicted, seq_high, app_log >>

EchoNext ==
  \/ \E n \in {"B", "C"} : LineOgmEmit(n)
  \/ EchoSend
  \/ \E n \in Nodes : LineTx(n)
  \/ \E n \in Nodes : LineRx(n)

SpecEcho == InitData /\ [][EchoNext]_vars

\* the frame the RX worker of node n enqueues in this step, if it enqueues one
ForwardEnqueued(n) ==
  IF seqno' = seqno /\ Len(txq'[n]) > Len(txq[n]) THEN << txq'[n][Len(txq'[n])] >> ELSE << >>

\* C28: a node never enqueues a forward of a DATA frame whose origin_id is
\* its own node ID: a frame it sent and hears back is not transmitted again.
NoForwardOfOwnData ==
  [][\A n \in Nodes :
       \A i \in 1..Len(ForwardEnqueued(n)) :
         ~(/\ ForwardEnqueued(n)[i][AX25_HEADER_LEN + 2] = MESH_MSG_DATA
           /\ SubSeq(ForwardEnqueued(n)[i], AX25_HEADER_LEN + 5, AX25_HEADER_LEN + 12)
                = NodeId(n))]_vars

====
